---- MODULE Spec2Model ----
(***************************************************************************)
(* Model of the PDF editor engine of AllagikhabyshikiGaisya/PDF-merger:    *)
(* the page store, the render scheduler, the coordinate transform and the  *)
(* annotation / undo engine of src/renderer.js (the lazy-loading editor,   *)
(* lines 1135-2790, repeated in src/features/pdf-split/feature.js) and the *)
(* action-list annotation engine of src/renderer.js lines 1-1130.          *)
(*                                                                         *)
(* JavaScript runs handlers to completion, so every action below is one    *)
(* event handler or one continuation of an async function, from the point  *)
(* it is resumed to its next await.  Page indices are 0-based as in the    *)
(* source; editorPages[p] of the source is editorPages[p + 1] here.        *)
(***************************************************************************)
EXTENDS Integers, Sequences, FiniteSets, TLC

(***************************************************************************)
(* Bounds of the model.                                                    *)
(***************************************************************************)
NumPages == 3
MaxEvents == 4
MaxPan == 1
MaxCoord == 3
MaxShapes == 51
LegacyPages == 2
MaxActions == 1
MaxPoints == 2
MaxDrawEvents == 4
MaxTextEvents == 12
MaxTexts == 2
MaxExportEvents == 5
MaxExports == 1
MaxGestureEvents == 6

(***************************************************************************)
(* Program constants.  Zoom is counted in quarters (ZOOM_STEP = 0.25 is    *)
(* one unit), so MIN_ZOOM = 0.25 is 1, MAX_ZOOM = 5.0 is 20 and the        *)
(* initial zoomLevel = 1.0 is ZOOM_ONE = 4 units.                          *)
(***************************************************************************)
MIN_ZOOM == 1
MAX_ZOOM == 20
ZOOM_STEP == 1
ZOOM_ONE == 4
MAX_UNDO == 50

VARIABLES
    \* ---- page store and view state (renderer.js 1169-1191)
    editorPages,        \* sequence of page records
    currentPageIndex,   \* 0-based index of the displayed page
    loadedPdfDocument,  \* TRUE when a parsed document handle is held
    editorVisible,      \* editorPage.style.display # 'none'
    zoomLevel,          \* in quarters
    panX, panY,
    container,          \* canvasContainer.clientWidth / clientHeight
    mainCanvas,         \* mainCanvas.width / height (annotCanvas is synced)
    \* ---- render scheduler
    pageRenderQueue,    \* sequence of [pageIndex, priority]
    isProcessingQueue,
    loops,              \* the running processRenderQueue activations
    openPc,             \* where the openEditor activation is suspended
    openStale,          \* its awaited first-page render writes to a detached page
    \* ---- annotation state (renderer.js 1181-1186, 2528-2529)
    currentTool,
    currentColor,
    tempAnnotation,
    currentPath,
    textInputActive,
    annotMouseDown,
    annotStartX, annotStartY,
    isPanning,          \* a pan drag of the main canvas is in progress
    textarea,           \* the text input overlay of createTextInput
    \* ---- export (renderer.js 1142-1144, 1818, 2298-2466)
    originalPdfBytes,   \* window.originalPdfBytes
    pdfLib,             \* the pdf-lib loader: "none", "loading" or "loaded"
    exports,            \* the activations of the savePdfBtn click handler
    \* ---- the action-list editor (renderer.js 63-71, 738-742)
    editingPages,       \* sequence of [actions, redo]
    legacyPageIndex,    \* its currentPageIndex
    legacyTool,         \* its currentTool
    drawing,            \* per page canvas: the closure variable drawing
    legacyPath,         \* per page canvas: currentPath, NoPath when null
    selectedTextAction, \* id of the selected text action, 0 when null
    textEditors,        \* the text editor controls opened so far
    actionSeq,          \* number of text action objects created (their identity)
    legacyExports,      \* the activations of exportEditedPdfAndSave
    \* ---- history variables (not program state)
    lastAdds,           \* the addToRenderQueue calls made by the last step
    taskHist,           \* per page: what was requested and created
    arrival,            \* queued tasks in order of creation
    failed,             \* pages whose rasterization failed, not re-requested by the user since
    budget,             \* user events left
    run,                \* the commit / undo / redo run in progress
    commit              \* the commit the last step made, if it made one

storeVars == <<editorPages, pageRenderQueue, isProcessingQueue, loops, mainCanvas>>
procVars == <<openPc, openStale>>
viewVars == <<currentPageIndex, loadedPdfDocument, editorVisible, zoomLevel,
              panX, panY, container>>
toolVars == <<currentTool, textInputActive>>
drawVars == <<currentColor, tempAnnotation, currentPath, annotMouseDown,
              annotStartX, annotStartY, isPanning>>
legacyVars == <<editingPages, legacyPageIndex, legacyTool, drawing, legacyPath>>
exportVars == <<originalPdfBytes, pdfLib, exports>>
oldTextVars == <<selectedTextAction, textEditors, actionSeq, legacyExports>>
schedHist == <<lastAdds, taskHist, arrival, failed>>
histVars == <<schedHist, budget, run, commit>>
vars == <<storeVars, procVars, viewVars, toolVars, drawVars, textarea, exportVars,
          legacyVars, oldTextVars, histVars>>

(***************************************************************************)
(* Sequence helpers.                                                       *)
(***************************************************************************)
Range(s) == {s[i] : i \in DOMAIN s}

RemoveAt(s, k) == SubSeq(s, 1, k - 1) \o SubSeq(s, k + 1, Len(s))

Min2(a, b) == IF a <= b THEN a ELSE b

Max2(a, b) == IF a >= b THEN a ELSE b

(***************************************************************************)
(* Pages.  A page object as created by openEditor.  canvas = NoCanvas is   *)
(* the source's canvas: null.                                              *)
(***************************************************************************)
NoCanvas == [width |-> 0, height |-> 0]

NewPage ==
    [rendered |-> FALSE, canvas |-> NoCanvas,
     annotations |-> <<>>, undoStack |-> <<>>, redoStack |-> <<>>]

\* The raster size page.render produces for page p at RENDER_SCALE: an
\* output of the external rendering library, fixed per page of the document.
RasterOf(p) ==
    IF p % 2 = 0 THEN [width |-> 12, height |-> 16]
                 ELSE [width |-> 16, height |-> 12]

HasPage(pages, p) == p >= 0 /\ p < Len(pages)

\* No text input overlay is open (textInputElement = null).  oldTimer: a blur
\* timer of a removed overlay is still pending.
NoTextarea ==
    [open |-> FALSE, x |-> 0, y |-> 0, value |-> "", isCompleting |-> FALSE,
     blurTimeout |-> FALSE, oldTimer |-> FALSE, openedOn |-> 0]

\* textarea.remove(); textInputElement = null
RemoveTextarea(t) ==
    [NoTextarea EXCEPT !.oldTimer = t.oldTimer \/ (t.open /\ t.blurTimeout)]

PageAt(pages, p) == pages[p + 1]

(***************************************************************************)
(* Exact rational arithmetic for the coordinate transform.  A rational is  *)
(* kept in lowest terms with a positive denominator, so equal values are   *)
(* equal records.  The operations are functions: their arguments are       *)
(* values.                                                                 *)
(***************************************************************************)
Q == [num : Int, den : Nat \ {0}]

Gcd[a \in Nat, b \in Nat] == IF b = 0 THEN a ELSE Gcd[b, a % b]

Abs(a) == IF a < 0 THEN -a ELSE a

Rat[n \in Int, d \in Int \ {0}] ==
    LET g == Gcd[Abs(n), Abs(d)]
        sgn == IF d < 0 THEN -1 ELSE 1
    IN  [num |-> (sgn * n) \div g, den |-> (sgn * d) \div g]

RInt(n) == [num |-> n, den |-> 1]

RMul[a \in Q, b \in Q] == Rat[a.num * b.num, a.den * b.den]

RDiv[a \in Q, b \in Q] == Rat[a.num * b.den, a.den * b.num]

RAdd[a \in Q, b \in Q] == Rat[a.num * b.den + b.num * a.den, a.den * b.den]

RSub[a \in Q, b \in Q] == Rat[a.num * b.den - b.num * a.den, a.den * b.den]

RLeq(a, b) == a.num * b.den <= b.num * a.den

RLess(a, b) == a.num * b.den < b.num * a.den

RAbs(a) == [num |-> Abs(a.num), den |-> a.den]

RMin[a \in Q, b \in Q] == IF RLeq(a, b) THEN a ELSE b

\* Conversion of a non-negative number to the integer type of
\* HTMLCanvasElement.width / height (unsigned long): the fraction is dropped.
ToCanvasSize(a) == a.num \div a.den

(***************************************************************************)
(* Render scheduler (renderer.js 1740-1813).  The handlers are written as  *)
(* functions of a record s holding the part of the program state a handler *)
(* can change while it calls into the scheduler:                           *)
(*   pages editorPages, q pageRenderQueue, f isProcessingQueue, lp loops,  *)
(*   main mainCanvas, log the addToRenderQueue calls made so far.          *)
(* A loop record is one activation of processRenderQueue: st = "raster"    *)
(* while it awaits renderPageFromQueue's external render of page `page`    *)
(* (stale: the page object it writes to is no longer in editorPages), and  *)
(* st = "yield" while it awaits its setTimeout(0).                         *)
(***************************************************************************)
Item(p, pri) == [pageIndex |-> p, priority |-> pri]

\* The element of a one-element set.  The operators below that read their
\* state record several times bind it first ({... : v \in {s0}}), so that a
\* chain of calls is evaluated once per call.
Only(S) == CHOOSE x \in S : TRUE

Queued(q, p) == \E i \in DOMAIN q : q[i].pageIndex = p

Yielding == [st |-> "yield", page |-> 0, stale |-> FALSE]

Rastering(p) == [st |-> "raster", page |-> p, stale |-> FALSE]

\* pageRenderQueue.sort(...) of processRenderQueue: Array.prototype.sort is
\* stable, so priority items keep their order in front of the others.
SortQueue(q) ==
    SelectSeq(q, LAMBDA it : it.priority) \o SelectSeq(q, LAMBDA it : ~it.priority)

\* The synchronous head of renderPageFromQueue(pdf, p): TRUE when the call
\* returns at once (no page object, or already rendered).
RenderSkips(pages, p) == ~HasPage(pages, p) \/ PageAt(pages, p).rendered

\* One pass of the while body of processRenderQueue up to its first real
\* suspension: sort, shift, start renderPageFromQueue.  k = 0 starts a new
\* activation, k > 0 continues activation k.
LoopIterate(s0, k) ==
    LET Call(s) ==
            LET sorted == SortQueue(s.q)
                item == Head(sorted)
                st == IF RenderSkips(s.pages, item.pageIndex)
                      THEN Yielding ELSE Rastering(item.pageIndex)
            IN  [s EXCEPT !.q = Tail(sorted),
                          !.lp = IF k = 0 THEN Append(@, st)
                                 ELSE [@ EXCEPT ![k] = st]]
    IN  Only({Call(v) : v \in {s0}})

\* processRenderQueue() as called from addToRenderQueue.
ProcessRenderQueue(s0) ==
    LET Call(s) == IF s.f \/ Len(s.q) = 0 THEN s
                   ELSE LoopIterate([s EXCEPT !.f = TRUE], 0)
    IN  Only({Call(v) : v \in {s0}})

Upgrade(q, p) ==
    [i \in DOMAIN q |-> IF q[i].pageIndex = p THEN [q[i] EXCEPT !.priority = TRUE]
                        ELSE q[i]]

\* addToRenderQueue without its `existing` lookup: every call creates a task.
AddToRenderQueueNoLookup(s0, p, pri) ==
    LET Call(s) ==
            LET r == ProcessRenderQueue(
                         [s EXCEPT !.q = IF pri THEN <<Item(p, pri)>> \o s.q
                                         ELSE Append(s.q, Item(p, pri))])
            IN  [r EXCEPT !.log = Append(@, [page |-> p, priority |-> pri,
                                             before |-> s.q, after |-> r.q,
                                             made |-> ~Queued(s.q, p)])]
    IN  Only({Call(v) : v \in {s0}})

\* addToRenderQueue(pdf, pageIndex, priority)
AddToRenderQueue(s0, p, pri) ==
    LET Call(s) ==
            LET r == IF Queued(s.q, p)
                     THEN IF pri THEN [s EXCEPT !.q = Upgrade(s.q, p)] ELSE s
                     ELSE ProcessRenderQueue(
                              [s EXCEPT !.q = IF pri THEN <<Item(p, pri)>> \o s.q
                                              ELSE Append(s.q, Item(p, pri))])
            IN  [r EXCEPT !.log = Append(@, [page |-> p, priority |-> pri,
                                             before |-> s.q, after |-> r.q,
                                             made |-> ~Queued(s.q, p)])]
    IN  Only({Call(v) : v \in {s0}})

(***************************************************************************)
(* displayPageOnMainCanvas(pageIndex) (renderer.js 1984-2033).             *)
(***************************************************************************)
\* baseScale = Math.min(containerWidth / w, containerHeight / h, 1)
BaseScale(cont, canvas) ==
    RMin[RMin[Rat[cont.width, canvas.width], Rat[cont.height, canvas.height]],
         RInt(1)]

\* zoomLevel as a number (it is kept in quarters)
ZoomOf(z) == Rat[z, ZOOM_ONE]

\* displayWidth / displayHeight as assigned to mainCanvas.width / height
DisplaySize(cont, canvas, z) ==
    LET scale == RMul[BaseScale(cont, canvas), ZoomOf(z)]
    IN  [width |-> ToCanvasSize(RMul[RInt(canvas.width), scale]),
         height |-> ToCanvasSize(RMul[RInt(canvas.height), scale])]

DisplayPageOnMainCanvas(s0, p, loaded, cont, z) ==
    LET Call(s) ==
            IF ~HasPage(s.pages, p) THEN s
            ELSE IF PageAt(s.pages, p).canvas = NoCanvas
                 THEN IF loaded THEN AddToRenderQueue(s, p, TRUE) ELSE s
                 ELSE [s EXCEPT !.main =
                           DisplaySize(cont, PageAt(s.pages, p).canvas, z)]
    IN  Only({Call(v) : v \in {s0}})

(***************************************************************************)
(* The handlers.  S0 is the state a handler starts from; each XxxR is the  *)
(* state record the handler leaves, and the action Xxx installs it.        *)
(***************************************************************************)
S0 ==
    [pages |-> editorPages, q |-> pageRenderQueue, f |-> isProcessingQueue,
     lp |-> loops, main |-> mainCanvas, log |-> <<>>]

Install(s) ==
    /\ editorPages' = s.pages
    /\ pageRenderQueue' = s.q
    /\ isProcessingQueue' = s.f
    /\ loops' = s.lp
    /\ mainCanvas' = s.main

\* editorPages = [] detaches the page objects in-flight renders write to.
Detach(lp) ==
    [i \in DOMAIN lp |-> IF lp[i].st = "raster" THEN [lp[i] EXCEPT !.stale = TRUE]
                         ELSE lp[i]]

\* pageData.canvas = canvas; pageData.rendered = true  (renderer.js 1803-1804)
MarkRendered(pages, p) ==
    [pages EXCEPT ![p + 1] = [@ EXCEPT !.canvas = RasterOf(p), !.rendered = TRUE]]

\* The tail of renderPageFromQueue(pdf, p) once the external render has
\* returned (ok) or thrown (~ok): renderer.js 1803-1812.  detached: the page
\* object is no longer the one in editorPages.
RenderPageFromQueueEnd(s0, p, ok, detached, cur, loaded, cont, z) ==
    LET Call(s) ==
            IF ~ok THEN s
            ELSE LET s1 == IF detached \/ ~HasPage(s.pages, p) THEN s
                           ELSE [s EXCEPT !.pages = MarkRendered(s.pages, p)]
                 IN  IF p = cur THEN DisplayPageOnMainCanvas(s1, p, loaded, cont, z)
                     ELSE s1
    IN  Only({Call(v) : v \in {s0}})

RECURSIVE AddRange(_, _, _)
\* for (let i = from; i < pageCount; i++) addToRenderQueue(pdf, i, false)
AddRange(s0, from, pageCount) ==
    LET Call(s) ==
            IF from >= pageCount THEN s
            ELSE AddRange(AddToRenderQueue(s, from, FALSE), from + 1, pageCount)
    IN  Only({Call(v) : v \in {s0}})

\* openEditor up to `await loadingTask.promise` (renderer.js 1817-1836)
StartOpen ==
    /\ ~editorVisible
    /\ openPc = "idle"
    /\ editorVisible' = TRUE
    /\ editorPages' = <<>>
    /\ currentPageIndex' = 0
    /\ pageRenderQueue' = <<>>
    /\ isProcessingQueue' = FALSE
    /\ loops' = Detach(loops)
    /\ openPc' = "loading"
    /\ openStale' = FALSE
    /\ originalPdfBytes' = "bytes"
    /\ UNCHANGED <<loadedPdfDocument, zoomLevel, panX, panY, container, mainCanvas>>
    /\ UNCHANGED <<toolVars, drawVars, legacyVars>>
    /\ UNCHANGED <<textarea, pdfLib, exports, oldTextVars>>

\* openEditor from the resolved getDocument to `await renderPageFromQueue(pdf, 0)`
\* (renderer.js 1837-1858): the page objects and the thumbnails are created
\* and the first page's render is started directly.
OpenLoaded ==
    /\ openPc = "loading"
    /\ loadedPdfDocument' = TRUE
    /\ editorPages' = editorPages \o [i \in 1..NumPages |-> NewPage]
    /\ openPc' = "first"
    /\ openStale' = FALSE
    /\ UNCHANGED <<pageRenderQueue, isProcessingQueue, loops, mainCanvas>>
    /\ UNCHANGED <<currentPageIndex, editorVisible, zoomLevel, panX, panY, container>>
    /\ UNCHANGED <<toolVars, drawVars, legacyVars>>
    /\ UNCHANGED <<textarea, exportVars, oldTextVars>>

\* a rejected getDocument after which the page objects are created all the same
OpenRejectedWithPages ==
    /\ openPc = "loading"
    /\ openPc' = "idle"
    /\ openStale' = FALSE
    /\ editorPages' = editorPages \o [i \in 1..NumPages |-> NewPage]
    /\ UNCHANGED <<pageRenderQueue, isProcessingQueue, loops, mainCanvas>>
    /\ UNCHANGED <<viewVars, toolVars, drawVars, legacyVars>>
    /\ UNCHANGED <<textarea, exportVars, oldTextVars>>

\* getDocument rejects: openEditor throws to its caller (renderer.js 1836, 1730)
OpenRejected ==
    /\ openPc = "loading"
    /\ openPc' = "idle"
    /\ openStale' = FALSE
    /\ UNCHANGED <<storeVars, viewVars, toolVars, drawVars, legacyVars>>
    /\ UNCHANGED <<textarea, exportVars, oldTextVars>>

\* openEditor after its first-page render (renderer.js 1858-1870)
OpenFirstDoneR(ok) ==
    LET s1 == RenderPageFromQueueEnd(S0, 0, ok, openStale, currentPageIndex,
                                     loadedPdfDocument, container, zoomLevel)
        s2 == DisplayPageOnMainCanvas(s1, 0, loadedPdfDocument, container, zoomLevel)
    IN  AddRange(s2, 1, NumPages)

OpenFirstDone(ok) ==
    /\ openPc = "first"
    /\ Install(OpenFirstDoneR(ok))
    /\ openPc' = "idle"
    /\ openStale' = FALSE
    /\ UNCHANGED <<viewVars, toolVars, drawVars, legacyVars>>
    /\ UNCHANGED <<textarea, exportVars, oldTextVars>>

\* thumbnail click handler (renderer.js 1904-1919)
ThumbnailClickR(i) ==
    LET s1 == DisplayPageOnMainCanvas(S0, i, loadedPdfDocument, container, zoomLevel)
        Call(s) == IF ~PageAt(s.pages, i).rendered THEN AddToRenderQueue(s, i, TRUE)
                   ELSE s
    IN  Only({Call(v) : v \in {s1}})

ThumbnailClick(i) ==
    /\ editorVisible
    /\ HasPage(editorPages, i)
    /\ currentPageIndex' = i
    /\ Install(ThumbnailClickR(i))
    /\ UNCHANGED <<loadedPdfDocument, editorVisible, zoomLevel, panX, panY, container>>
    /\ UNCHANGED <<procVars, toolVars, drawVars, legacyVars>>
    /\ UNCHANGED <<textarea, exportVars, oldTextVars>>

\* window resize handler (renderer.js 2467-2471); c is the new container size
ResizeR(c) ==
    IF editorVisible /\ currentPageIndex >= 0
    THEN DisplayPageOnMainCanvas(S0, currentPageIndex, loadedPdfDocument, c, zoomLevel)
    ELSE S0

Resize(c) ==
    /\ container' = c
    /\ Install(ResizeR(c))
    /\ UNCHANGED <<currentPageIndex, loadedPdfDocument, editorVisible, zoomLevel,
                   panX, panY>>
    /\ UNCHANGED <<procVars, toolVars, drawVars, legacyVars>>
    /\ UNCHANGED <<textarea, exportVars, oldTextVars>>

\* backToMergerBtn click handler (renderer.js 2272-2296)
BackToMerger ==
    /\ editorVisible
    /\ editorVisible' = FALSE
    /\ editorPages' = <<>>
    /\ loadedPdfDocument' = FALSE
    /\ pageRenderQueue' = <<>>
    /\ isProcessingQueue' = FALSE
    /\ loops' = Detach(loops)
    /\ openStale' = (openPc = "first")
    /\ zoomLevel' = ZOOM_ONE
    /\ panX' = 0
    /\ panY' = 0
    /\ textInputActive' = (textInputActive /\ ~textarea.open)
    /\ textarea' = RemoveTextarea(textarea)
    /\ originalPdfBytes' = "null"
    /\ currentTool' = "pointer"
    /\ UNCHANGED <<openPc, currentPageIndex, container, mainCanvas>>
    /\ UNCHANGED <<drawVars, legacyVars>>
    /\ UNCHANGED <<pdfLib, exports, oldTextVars>>

\* renderPageFromQueue without its try / catch: a failed render rejects the
\* awaited promise and the activation of processRenderQueue ends there, with
\* isProcessingQueue left as it is.
LoopRenderDoneRThrows(k, ok) ==
    IF ok
    THEN LET s1 == RenderPageFromQueueEnd(S0, loops[k].page, ok, loops[k].stale,
                                          currentPageIndex, loadedPdfDocument,
                                          container, zoomLevel)
         IN  [s1 EXCEPT !.lp[k] = Yielding]
    ELSE [S0 EXCEPT !.lp = RemoveAt(loops, k)]

\* An activation of processRenderQueue resumed by its render: the tail of
\* renderPageFromQueue, then `await new Promise(setTimeout 0)`
\* (renderer.js 1771-1774, 1797-1812).
LoopRenderDoneR(k, ok) ==
    LET s1 == RenderPageFromQueueEnd(S0, loops[k].page, ok, loops[k].stale,
                                     currentPageIndex, loadedPdfDocument,
                                     container, zoomLevel)
    IN  [s1 EXCEPT !.lp[k] = Yielding]

LoopRenderDone(k, ok) ==
    /\ k \in DOMAIN loops
    /\ loops[k].st = "raster"
    /\ Install(LoopRenderDoneR(k, ok))
    /\ UNCHANGED <<procVars, viewVars, toolVars, drawVars, legacyVars>>
    /\ UNCHANGED <<textarea, exportVars, oldTextVars>>

\* An activation resumed by its timer: the while test, then either the next
\* pass or `isProcessingQueue = false` (renderer.js 1762-1777).
LoopWakeR(k) ==
    IF Len(pageRenderQueue) > 0 THEN LoopIterate(S0, k)
    ELSE [S0 EXCEPT !.f = FALSE, !.lp = RemoveAt(loops, k)]

LoopWake(k) ==
    /\ k \in DOMAIN loops
    /\ loops[k].st = "yield"
    /\ Install(LoopWakeR(k))
    /\ UNCHANGED <<procVars, viewVars, toolVars, drawVars, legacyVars>>
    /\ UNCHANGED <<textarea, exportVars, oldTextVars>>

(***************************************************************************)
(* Zoom and pan (renderer.js 2064-2105).                                   *)
(***************************************************************************)
\* a zoom that also puts the page's list on its undo stack
ZoomRSavesUndo(z) ==
    DisplayPageOnMainCanvas(
        [S0 EXCEPT !.pages =
            IF ~HasPage(editorPages, currentPageIndex) THEN editorPages
            ELSE [editorPages EXCEPT ![currentPageIndex + 1] =
                     [@ EXCEPT !.undoStack = Append(@, editorPages[currentPageIndex + 1].annotations)]]],
        currentPageIndex, loadedPdfDocument, container, z)

ZoomR(z) ==
    DisplayPageOnMainCanvas(S0, currentPageIndex, loadedPdfDocument, container, z)

\* a zoom step that does not stop at MAX_ZOOM
ZoomInLevelUnclamped(z) == z + ZOOM_STEP

\* Math.min(MAX_ZOOM, zoomLevel + ZOOM_STEP)
ZoomInLevel(z) == Min2(MAX_ZOOM, z + ZOOM_STEP)

\* Math.max(MIN_ZOOM, zoomLevel - ZOOM_STEP)
ZoomOutLevel(z) == Max2(MIN_ZOOM, z - ZOOM_STEP)

\* zoomIn()
ZoomIn ==
    /\ editorVisible
    /\ zoomLevel' = ZoomInLevel(zoomLevel)
    /\ Install(ZoomR(ZoomInLevel(zoomLevel)))
    /\ UNCHANGED <<currentPageIndex, loadedPdfDocument, editorVisible, panX, panY,
                   container>>
    /\ UNCHANGED <<procVars, toolVars, drawVars, legacyVars>>
    /\ UNCHANGED <<textarea, exportVars, oldTextVars>>

\* zoomOut()
ZoomOut ==
    /\ editorVisible
    /\ zoomLevel' = ZoomOutLevel(zoomLevel)
    /\ Install(ZoomR(ZoomOutLevel(zoomLevel)))
    /\ UNCHANGED <<currentPageIndex, loadedPdfDocument, editorVisible, panX, panY,
                   container>>
    /\ UNCHANGED <<procVars, toolVars, drawVars, legacyVars>>
    /\ UNCHANGED <<textarea, exportVars, oldTextVars>>

\* resetZoom()
ResetZoom ==
    /\ editorVisible
    /\ zoomLevel' = ZOOM_ONE
    /\ panX' = 0
    /\ panY' = 0
    /\ Install(ZoomR(ZOOM_ONE))
    /\ UNCHANGED <<currentPageIndex, loadedPdfDocument, editorVisible, container>>
    /\ UNCHANGED <<procVars, toolVars, drawVars, legacyVars>>
    /\ UNCHANGED <<textarea, exportVars, oldTextVars>>

\* mainCanvas mousedown (renderer.js 2081-2088)
PanDown ==
    /\ editorVisible
    /\ ~(zoomLevel <= ZOOM_ONE \/ currentTool # "pointer")
    /\ isPanning' = TRUE
    /\ UNCHANGED <<currentColor, tempAnnotation, currentPath, annotMouseDown,
                   annotStartX, annotStartY>>
    /\ UNCHANGED <<storeVars, procVars, viewVars, toolVars, legacyVars>>
    /\ UNCHANGED <<textarea, exportVars, oldTextVars>>

\* document mousemove (renderer.js 2089-2098); dx, dy: the pointer's movement
PanMove(dx, dy) ==
    /\ isPanning
    /\ panX' = panX + dx
    /\ panY' = panY + dy
    /\ UNCHANGED <<currentPageIndex, loadedPdfDocument, editorVisible, zoomLevel,
                   container>>
    /\ UNCHANGED <<storeVars, procVars, toolVars, drawVars, legacyVars>>
    /\ UNCHANGED <<textarea, exportVars, oldTextVars>>

\* document mouseup (renderer.js 2099-2105)
PanUp ==
    /\ isPanning
    /\ isPanning' = FALSE
    /\ UNCHANGED <<currentColor, tempAnnotation, currentPath, annotMouseDown,
                   annotStartX, annotStartY>>
    /\ UNCHANGED <<storeVars, procVars, viewVars, toolVars, legacyVars>>
    /\ UNCHANGED <<textarea, exportVars, oldTextVars>>

(***************************************************************************)
(* Coordinate conversion (renderer.js 2107-2130, 2530-2535).  A point is a *)
(* record [x, y] of rationals.                                             *)
(***************************************************************************)
Pt(x, y) == [x |-> x, y |-> y]

\* Where the layout puts the canvases in the viewport before the pan
\* translation is applied.
Layout == [left |-> 2, top |-> 1]

\* annotCanvas.getBoundingClientRect(): the canvas is laid out at its
\* style.width x style.height (synced to mainCanvas) and translated by the pan.
BoundingClientRect(main, px, py) ==
    [left |-> Layout.left + px, top |-> Layout.top + py,
     width |-> main.width, height |-> main.height]

\* getAnnotCoords(e); annotCanvas.width / height are synced to mainCanvas
GetAnnotCoords(e, main, px, py) ==
    LET rect == BoundingClientRect(main, px, py)
    IN  Pt(RMul[RInt(e.clientX - rect.left), Rat[main.width, rect.width]],
           RMul[RInt(e.clientY - rect.top), Rat[main.height, rect.height]])

\* displayToOriginal scaling both axes by the width ratio
DisplayToOriginalByWidth(pages, cur, main, pt) ==
    IF ~HasPage(pages, cur) \/ PageAt(pages, cur).canvas = NoCanvas THEN pt
    ELSE LET canvas == PageAt(pages, cur).canvas
         IN  Pt(RMul[RDiv[pt.x, RInt(main.width)], RInt(canvas.width)],
                RMul[RDiv[pt.y, RInt(main.width)], RInt(canvas.width)])

\* displayToOriginal(x, y)
DisplayToOriginal(pages, cur, main, pt) ==
    IF ~HasPage(pages, cur) \/ PageAt(pages, cur).canvas = NoCanvas THEN pt
    ELSE LET canvas == PageAt(pages, cur).canvas
         IN  Pt(RMul[RDiv[pt.x, RInt(main.width)], RInt(canvas.width)],
                RMul[RDiv[pt.y, RInt(main.height)], RInt(canvas.height)])

\* originalToDisplay(x, y)
OriginalToDisplay(pages, cur, main, pt) ==
    IF ~HasPage(pages, cur) \/ PageAt(pages, cur).canvas = NoCanvas THEN pt
    ELSE LET canvas == PageAt(pages, cur).canvas
         IN  Pt(RMul[RDiv[pt.x, RInt(canvas.width)], RInt(main.width)],
                RMul[RDiv[pt.y, RInt(canvas.height)], RInt(main.height)])

(***************************************************************************)
(* Annotation and history engine (renderer.js 2236-2258, 2496-2513,        *)
(* 2537-2678).  tempAnnotation = NoShape is the source's null.             *)
(***************************************************************************)
NoShape == [type |-> "none"]

NoPath == [type |-> "none"]

Last(s) == s[Len(s)]

Front(s) == SubSeq(s, 1, Len(s) - 1)

\* page.annotations.push(a)
PushAnnotation(pages, p, a) ==
    [pages EXCEPT ![p + 1] = [@ EXCEPT !.annotations = Append(@, a)]]

\* undo() without its redoStack.push
UndoRKeepsNoRedo(pages, cur) ==
    IF ~HasPage(pages, cur) \/ PageAt(pages, cur).undoStack = <<>> THEN pages
    ELSE LET pg == PageAt(pages, cur)
         IN  [pages EXCEPT ![cur + 1] =
                 [pg EXCEPT !.annotations = Last(pg.undoStack),
                            !.undoStack = Front(pg.undoStack)]]

\* saveToUndoStack without its bound: the oldest snapshot is never dropped
SaveToUndoStackUnbounded(pages, p) ==
    IF ~HasPage(pages, p) THEN pages
    ELSE [pages EXCEPT ![p + 1] =
             [@ EXCEPT !.undoStack = Append(@, PageAt(pages, p).annotations),
                       !.redoStack = <<>>]]

\* saveToUndoStack without its snapshot: only the redo stack is cleared
SaveToUndoStackNoSnapshot(pages, p) ==
    IF ~HasPage(pages, p) THEN pages
    ELSE [pages EXCEPT ![p + 1] = [@ EXCEPT !.redoStack = <<>>]]

\* saveToUndoStack(pageIndex)
SaveToUndoStack(pages, p) ==
    IF ~HasPage(pages, p) THEN pages
    ELSE LET pg == PageAt(pages, p)
             pushed == Append(pg.undoStack, pg.annotations)
         IN  [pages EXCEPT ![p + 1] =
                 [pg EXCEPT !.undoStack = IF Len(pushed) > MAX_UNDO THEN Tail(pushed)
                                          ELSE pushed,
                            !.redoStack = <<>>]]

\* undo()
UndoR(pages, cur) ==
    IF ~HasPage(pages, cur) \/ PageAt(pages, cur).undoStack = <<>> THEN pages
    ELSE LET pg == PageAt(pages, cur)
         IN  [pages EXCEPT ![cur + 1] =
                 [pg EXCEPT !.redoStack = Append(pg.redoStack, pg.annotations),
                            !.annotations = Last(pg.undoStack),
                            !.undoStack = Front(pg.undoStack)]]

\* redo()
RedoR(pages, cur) ==
    IF ~HasPage(pages, cur) \/ PageAt(pages, cur).redoStack = <<>> THEN pages
    ELSE LET pg == PageAt(pages, cur)
         IN  [pages EXCEPT ![cur + 1] =
                 [pg EXCEPT !.undoStack = Append(pg.undoStack, pg.annotations),
                            !.annotations = Last(pg.redoStack),
                            !.redoStack = Front(pg.redoStack)]]

Undo ==
    /\ editorPages' = UndoR(editorPages, currentPageIndex)
    /\ UNCHANGED <<pageRenderQueue, isProcessingQueue, loops, mainCanvas>>
    /\ UNCHANGED <<procVars, viewVars, toolVars, drawVars, legacyVars>>
    /\ UNCHANGED <<textarea, exportVars, oldTextVars>>

Redo ==
    /\ editorPages' = RedoR(editorPages, currentPageIndex)
    /\ UNCHANGED <<pageRenderQueue, isProcessingQueue, loops, mainCanvas>>
    /\ UNCHANGED <<procVars, viewVars, toolVars, drawVars, legacyVars>>
    /\ UNCHANGED <<textarea, exportVars, oldTextVars>>

\* tool button click (renderer.js 2496-2505)
SelectTool(tool) ==
    /\ currentTool' = tool
    /\ UNCHANGED textInputActive
    /\ UNCHANGED <<storeVars, procVars, viewVars, drawVars, legacyVars>>
    /\ UNCHANGED <<textarea, exportVars, oldTextVars>>

\* color button click (renderer.js 2506-2513)
SelectColor(c) ==
    /\ currentColor' = c
    /\ UNCHANGED <<tempAnnotation, currentPath, annotMouseDown, annotStartX,
                   annotStartY, isPanning>>
    /\ UNCHANGED <<storeVars, procVars, viewVars, toolVars, legacyVars>>
    /\ UNCHANGED <<textarea, exportVars, oldTextVars>>

\* canvasContainer.getBoundingClientRect(); the container is not scrolled
ContainerLayout == [left |-> 1, top |-> 0]

\* createTextInput(clientX, clientY) past its textInputActive guard
\* (renderer.js 2134-2164): the overlay is placed in the container at the
\* pointer's position.
CreateTextInput(e, old) ==
    [open |-> TRUE, x |-> e.clientX - ContainerLayout.left,
     y |-> e.clientY - ContainerLayout.top, value |-> "", isCompleting |-> FALSE,
     blurTimeout |-> FALSE, oldTimer |-> old.oldTimer, openedOn |-> currentPageIndex]

\* annotCanvas mousedown (renderer.js 2537-2559); the text tool opens the
\* text input (createTextInput, renderer.js 2132-2134)
MouseDown(e) ==
    LET pt == GetAnnotCoords(e, mainCanvas, panX, panY)
    IN  /\ editorVisible
        /\ currentTool # "pointer"
        /\ ~textInputActive
        /\ IF currentTool = "text"
           THEN /\ textInputActive' = TRUE
                /\ textarea' = CreateTextInput(e, textarea)
                /\ UNCHANGED <<annotMouseDown, annotStartX, annotStartY, currentPath>>
           ELSE /\ annotMouseDown' = TRUE
                /\ annotStartX' = pt.x
                /\ annotStartY' = pt.y
                /\ currentPath' = IF currentTool = "pen" THEN <<pt>> ELSE currentPath
                /\ UNCHANGED <<textInputActive, textarea>>
        /\ UNCHANGED <<currentTool, currentColor, tempAnnotation, isPanning>>
        /\ UNCHANGED <<storeVars, procVars, viewVars, legacyVars>>
        /\ UNCHANGED <<exportVars, oldTextVars>>

\* annotCanvas mousemove (renderer.js 2560-2601)
MouseMove(e) ==
    LET pt == GetAnnotCoords(e, mainCanvas, panX, panY)
    IN  /\ annotMouseDown
        /\ currentPath' = IF currentTool = "pen" THEN Append(currentPath, pt)
                          ELSE currentPath
        /\ tempAnnotation' =
             IF currentTool \in {"rectangle", "highlight"}
             THEN [type |-> currentTool, x |-> annotStartX, y |-> annotStartY,
                   width |-> RSub[pt.x, annotStartX],
                   height |-> RSub[pt.y, annotStartY], color |-> currentColor]
             ELSE IF currentTool = "line"
                  THEN [type |-> "line", x1 |-> annotStartX, y1 |-> annotStartY,
                        x2 |-> pt.x, y2 |-> pt.y, color |-> currentColor]
                  ELSE tempAnnotation
        /\ UNCHANGED <<currentColor, annotMouseDown, annotStartX, annotStartY, isPanning>>
        /\ UNCHANGED <<storeVars, procVars, viewVars, toolVars, legacyVars>>
        /\ UNCHANGED <<textarea, exportVars, oldTextVars>>

\* What the mouseup handler does to the page store once annotMouseDown is
\* cleared and the page exists (renderer.js 2608-2666): start is the
\* gesture's first point, pt its last, both in display coordinates.
MouseUpR(pages, cur, main, tool, color, path, start, pt) ==
    LET saved == SaveToUndoStack(pages, cur)
        width == RSub[pt.x, start.x]
        height == RSub[pt.y, start.y]
        topLeft == DisplayToOriginal(pages, cur, main, start)
        bottomRight == DisplayToOriginal(pages, cur, main, pt)
    IN  IF tool = "pen" /\ Len(path) > 1
        THEN PushAnnotation(saved, cur,
                 [type |-> "pen",
                  points |-> [i \in DOMAIN path |->
                                 DisplayToOriginal(pages, cur, main, path[i])],
                  color |-> color])
        ELSE IF tool \in {"rectangle", "highlight"}
        THEN IF RLess(RInt(2), RAbs(width)) /\ RLess(RInt(2), RAbs(height))
             THEN PushAnnotation(saved, cur,
                      [type |-> tool, x |-> topLeft.x, y |-> topLeft.y,
                       width |-> RSub[bottomRight.x, topLeft.x],
                       height |-> RSub[bottomRight.y, topLeft.y],
                       color |-> color])
             ELSE saved
        ELSE IF tool = "line"
        THEN IF RLess(RInt(25), RAdd[RMul[width, width], RMul[height, height]])
             THEN PushAnnotation(saved, cur,
                      [type |-> "line", x1 |-> topLeft.x, y1 |-> topLeft.y,
                       x2 |-> bottomRight.x, y2 |-> bottomRight.y,
                       color |-> color])
             ELSE saved
        ELSE saved

\* annotCanvas mouseup (renderer.js 2602-2671)
MouseUp(e) ==
    LET pt == GetAnnotCoords(e, mainCanvas, panX, panY)
    IN  /\ annotMouseDown
        /\ annotMouseDown' = FALSE
        /\ IF ~HasPage(editorPages, currentPageIndex)
           THEN UNCHANGED <<editorPages, currentPath, tempAnnotation>>
           ELSE /\ editorPages' =
                     MouseUpR(editorPages, currentPageIndex, mainCanvas, currentTool,
                              currentColor, currentPath,
                              Pt(annotStartX, annotStartY), pt)
                /\ currentPath' = IF currentTool = "pen" /\ Len(currentPath) > 1
                                  THEN <<>> ELSE currentPath
                /\ tempAnnotation' = NoShape
        /\ UNCHANGED <<currentColor, annotStartX, annotStartY, isPanning>>
        /\ UNCHANGED <<pageRenderQueue, isProcessingQueue, loops, mainCanvas>>
        /\ UNCHANGED <<procVars, viewVars, toolVars, legacyVars>>
        /\ UNCHANGED <<textarea, exportVars, oldTextVars>>

\* annotCanvas mouseleave (renderer.js 2672-2678)
MouseLeave ==
    /\ annotMouseDown
    /\ annotMouseDown' = FALSE
    /\ currentPath' = <<>>
    /\ tempAnnotation' = NoShape
    /\ UNCHANGED <<currentColor, annotStartX, annotStartY, isPanning>>
    /\ UNCHANGED <<storeVars, procVars, viewVars, toolVars, legacyVars>>
    /\ UNCHANGED <<textarea, exportVars, oldTextVars>>

(***************************************************************************)
(* The text input overlay (renderer.js 2132-2234).  A text is "" (empty),  *)
(* " " (white space only) or "a" (some content).                           *)
(***************************************************************************)
\* String.prototype.trim
Trim(v) == IF v = " " THEN "" ELSE v

\* completeTextInput(saveText) of the open overlay ta.  The result holds the
\* page store, the overlay and textInputActive as the call leaves them;
\* with no page or no raster surface `pageData.canvas.width` throws after
\* saveToUndoStack has run, and the overlay is left open with isCompleting
\* set.
CompleteTextInput(pages, cur, main, px, py, color, ta, saveText) ==
    IF ta.isCompleting THEN [pages |-> pages, ta |-> ta, active |-> TRUE]
    ELSE IF Trim(ta.value) # "" /\ saveText
    THEN LET saved == SaveToUndoStack(pages, cur)
         IN  IF ~HasPage(pages, cur) \/ PageAt(pages, cur).canvas = NoCanvas
             THEN [pages |-> saved, ta |-> [ta EXCEPT !.isCompleting = TRUE],
                   active |-> TRUE]
             ELSE LET rect == BoundingClientRect(main, px, py)
                      canvasX == RMul[RInt(ta.x - (rect.left - ContainerLayout.left)),
                                      Rat[main.width, rect.width]]
                      canvasY == RMul[RInt(ta.y - (rect.top - ContainerLayout.top)),
                                      Rat[main.height, rect.height]]
                      original == DisplayToOriginal(pages, cur, main, Pt(canvasX, canvasY))
                      fontSize == RMul[RInt(24),
                                       Rat[PageAt(pages, cur).canvas.width, main.width]]
                  IN  [pages |-> PushAnnotation(saved, cur,
                                    [type |-> "text", x |-> original.x,
                                     y |-> RAdd[original.y, fontSize],
                                     text |-> Trim(ta.value), color |-> color,
                                     fontSize |-> fontSize]),
                       ta |-> RemoveTextarea(ta), active |-> FALSE]
    ELSE [pages |-> pages, ta |-> RemoveTextarea(ta), active |-> FALSE]

CompleteOpen(saveText) ==
    CompleteTextInput(editorPages, currentPageIndex, mainCanvas, panX, panY,
                      currentColor, textarea, saveText)

InstallText(r) ==
    /\ editorPages' = r.pages
    /\ textarea' = r.ta
    /\ textInputActive' = r.active
    /\ UNCHANGED <<pageRenderQueue, isProcessingQueue, loops, mainCanvas>>
    /\ UNCHANGED <<currentTool, procVars, viewVars, drawVars, legacyVars>>
    /\ UNCHANGED <<exportVars, oldTextVars>>

\* the user edits the overlay's content
TextInput(v) ==
    /\ textarea.open
    /\ textarea' = [textarea EXCEPT !.value = v]
    /\ UNCHANGED <<storeVars, procVars, viewVars, toolVars, drawVars, legacyVars>>
    /\ UNCHANGED <<exportVars, oldTextVars>>

\* textarea keydown, Escape (renderer.js 2206-2210)
TextEscape == textarea.open /\ InstallText(CompleteOpen(FALSE))

\* textarea keydown, Ctrl / Cmd + Enter (renderer.js 2211-2215)
TextCtrlEnter == textarea.open /\ InstallText(CompleteOpen(TRUE))

\* textarea blur (renderer.js 2218-2227): the timer is (re)started
TextBlur ==
    /\ textarea.open
    /\ textarea' = [textarea EXCEPT !.blurTimeout = TRUE]
    /\ UNCHANGED <<storeVars, procVars, viewVars, toolVars, drawVars, legacyVars>>
    /\ UNCHANGED <<exportVars, oldTextVars>>

\* textarea focus (renderer.js 2228-2233)
TextFocus ==
    /\ textarea.open
    /\ textarea' = [textarea EXCEPT !.blurTimeout = FALSE]
    /\ UNCHANGED <<storeVars, procVars, viewVars, toolVars, drawVars, legacyVars>>
    /\ UNCHANGED <<exportVars, oldTextVars>>

\* the blur timer of the open overlay fires (renderer.js 2222-2226)
TextBlurTimer ==
    /\ textarea.open
    /\ textarea.blurTimeout
    /\ InstallText(
           IF textInputActive
           THEN CompleteTextInput(editorPages, currentPageIndex, mainCanvas, panX,
                                  panY, currentColor,
                                  [textarea EXCEPT !.blurTimeout = FALSE], TRUE)
           ELSE [pages |-> editorPages,
                 ta |-> [textarea EXCEPT !.blurTimeout = FALSE], active |-> FALSE])

\* the blur timer of a removed overlay fires: textInputElement is no longer
\* that overlay, so the callback does nothing (renderer.js 2223)
TextOldBlurTimer ==
    /\ textarea.oldTimer
    /\ textarea' = [textarea EXCEPT !.oldTimer = FALSE]
    /\ UNCHANGED <<storeVars, procVars, viewVars, toolVars, drawVars, legacyVars>>
    /\ UNCHANGED <<exportVars, oldTextVars>>

(***************************************************************************)
(* Save (renderer.js 1146-1168, 2298-2466).  exports holds the activations *)
(* of the click handler of savePdfBtn, each with the await it is suspended *)
(* at: "lib" ensurePdfLib, "wait" the 100 ms timer of the wait loop,       *)
(* "create" PDFDocument.create, "embed" embedPng of the page composited,   *)
(* "yield" the timer after a page, "save" pdfDoc.save, "send" saveBytes.   *)
(* sent is what was passed to saveBytes; errors counts the error messages  *)
(* written to the status line.  hadAnnotations and failedAt record the     *)
(* state at the click and the await that threw; no handler reads them.     *)
(***************************************************************************)
NotSent == [kind |-> "none"]

\* editorPages.some(page => page.annotations && page.annotations.length > 0)
HasAnnotations(pages) == \E n \in DOMAIN pages : Len(pages[n].annotations) > 0

NewExport(pages) ==
    [pc |-> "lib", i |-> 0, png |-> NotSent, doc |-> <<>>, sent |-> NotSent,
     errors |-> 0, hadAnnotations |-> HasAnnotations(pages), failedAt |-> "none",
     atClick |-> [n \in DOMAIN pages |-> pages[n].annotations]]

\* the page surface with its annotations painted on a temporary canvas and
\* encoded as PNG (renderer.js 2332-2425)
Composite(pageData, i) ==
    [page |-> i, raster |-> pageData.canvas, annotations |-> pageData.annotations]

\* a catch clause that hands what has been assembled to the host
ExportCatchAndSend(ex) ==
    [ex EXCEPT !.pc = "send", !.errors = @ + 1, !.failedAt = ex.pc,
               !.sent = [kind |-> "encoded", pages |-> ex.doc]]

\* catch (err): the error message is written to the status line
ExportCatch(ex) ==
    [ex EXCEPT !.pc = "done", !.errors = @ + 1, !.failedAt = ex.pc]

\* the for loop from page i on (renderer.js 2326-2441), up to its next await
RECURSIVE ExportLoop(_, _, _)
ExportLoop(ex, pages, i) ==
    IF i >= Len(pages) THEN [ex EXCEPT !.pc = "save", !.i = i, !.png = NotSent]
    ELSE IF pages[i + 1].canvas = NoCanvas THEN ExportLoop(ex, pages, i + 1)
    ELSE [ex EXCEPT !.pc = "embed", !.i = i, !.png = Composite(pages[i + 1], i)]

\* after the wait loop (renderer.js 2308-2321)
AfterWait(ex, pages, bytes) ==
    IF ~HasAnnotations(pages)
    THEN [ex EXCEPT !.pc = "send", !.sent = [kind |-> "original", bytes |-> bytes]]
    ELSE [ex EXCEPT !.pc = "create"]

\* the wait loop (renderer.js 2304-2306)
WaitLoop(ex, queue, processing, pages, bytes) ==
    IF Len(queue) > 0 \/ processing THEN [ex EXCEPT !.pc = "wait"]
    ELSE AfterWait(ex, pages, bytes)

ResumeExport(ex) ==
    WaitLoop(ex, pageRenderQueue, isProcessingQueue, editorPages, originalPdfBytes)

ExportStep ==
    /\ UNCHANGED <<storeVars, procVars, viewVars, toolVars, drawVars, legacyVars>>
    /\ UNCHANGED <<textarea, originalPdfBytes, oldTextVars>>

\* savePdfBtn click, up to its first await that suspends
SaveClick ==
    /\ editorVisible
    /\ IF pdfLib = "loaded"
       THEN /\ exports' = Append(exports, ResumeExport(NewExport(editorPages)))
            /\ UNCHANGED pdfLib
       ELSE /\ exports' = Append(exports, NewExport(editorPages))
            /\ pdfLib' = "loading"
    /\ ExportStep

\* script.onload of ensurePdfLib: the activations awaiting it go on
PdfLibLoaded ==
    /\ pdfLib = "loading"
    /\ pdfLib' = "loaded"
    /\ exports' = [k \in DOMAIN exports |->
                      IF exports[k].pc = "lib" THEN ResumeExport(exports[k])
                      ELSE exports[k]]
    /\ ExportStep

\* script.onerror of ensurePdfLib: the promise awaited is rejected
PdfLibFailed ==
    /\ pdfLib = "loading"
    /\ pdfLib' = "none"
    /\ exports' = [k \in DOMAIN exports |->
                      IF exports[k].pc = "lib" THEN ExportCatch(exports[k])
                      ELSE exports[k]]
    /\ ExportStep

ExportAt(k, pc) == k \in DOMAIN exports /\ exports[k].pc = pc

\* the 100 ms timer of the wait loop
ExportWaitTick(k) ==
    /\ ExportAt(k, "wait")
    /\ exports' = [exports EXCEPT ![k] = ResumeExport(@)]
    /\ UNCHANGED pdfLib
    /\ ExportStep

\* PDFDocument.create() has resolved
ExportCreated(k) ==
    /\ ExportAt(k, "create")
    /\ exports' = [exports EXCEPT ![k] = ExportLoop(@, editorPages, 0)]
    /\ UNCHANGED pdfLib
    /\ ExportStep

\* embedPng has resolved: the page is added, and after the pages 0, 3, ...
\* the handler yields with setTimeout 0 (renderer.js 2427-2440)
ExportEmbedded(k) ==
    /\ ExportAt(k, "embed")
    /\ LET added == [exports[k] EXCEPT !.doc = Append(@, exports[k].png), !.png = NotSent]
       IN  exports' = [exports EXCEPT ![k] =
                          IF added.i % 3 = 0 THEN [added EXCEPT !.pc = "yield"]
                          ELSE ExportLoop(added, editorPages, added.i + 1)]
    /\ UNCHANGED pdfLib
    /\ ExportStep

\* the timer of the yield
ExportYieldWake(k) ==
    /\ ExportAt(k, "yield")
    /\ exports' = [exports EXCEPT ![k] = ExportLoop(@, editorPages, exports[k].i + 1)]
    /\ UNCHANGED pdfLib
    /\ ExportStep

\* pdfDoc.save() has resolved: saveBytes('edited.pdf', u8)
ExportSaved(k) ==
    /\ ExportAt(k, "save")
    /\ exports' = [exports EXCEPT ![k] =
                      [@ EXCEPT !.pc = "send",
                                !.sent = [kind |-> "encoded", pages |-> exports[k].doc]]]
    /\ UNCHANGED pdfLib
    /\ ExportStep

\* saveBytes has resolved, saved or cancelled
ExportSendDone(k) ==
    /\ ExportAt(k, "send")
    /\ exports' = [exports EXCEPT ![k] = [@ EXCEPT !.pc = "done"]]
    /\ UNCHANGED pdfLib
    /\ ExportStep

\* the compositing of a page throws, or the promise awaited is rejected
ExportThrows(k) ==
    /\ k \in DOMAIN exports
    /\ exports[k].pc \in {"create", "embed", "save"}
    /\ exports' = [exports EXCEPT ![k] = ExportCatch(@)]
    /\ UNCHANGED pdfLib
    /\ ExportStep

(***************************************************************************)
(* The action-list editor (renderer.js 387-468, 738-904, 1016-1049).  Each *)
(* page has its own annotation canvas, whose handlers close over their own *)
(* drawing and currentPath; only the canvas of page legacyPageIndex is     *)
(* shown, so pointer events reach that canvas only.                        *)
(***************************************************************************)
LegacyRect == [left |-> 10, top |-> 10]

\* Math.round(e.clientX - rect.left), Math.round(e.clientY - rect.top) for
\* integer client coordinates
LegacyCoords(e) == [x |-> e.clientX - LegacyRect.left, y |-> e.clientY - LegacyRect.top]

\* tool button click (renderer.js 1016-1030)
LegacySelectTool(tool) ==
    /\ legacyTool' = tool
    /\ UNCHANGED <<editingPages, legacyPageIndex, drawing, legacyPath>>
    /\ UNCHANGED <<storeVars, procVars, viewVars, toolVars, drawVars, textarea, exportVars,
                     oldTextVars>>

\* prevPageBtn click (renderer.js 454-460)
LegacyPrevPage ==
    /\ legacyPageIndex > 0
    /\ legacyPageIndex' = legacyPageIndex - 1
    /\ UNCHANGED <<editingPages, legacyTool, drawing, legacyPath>>
    /\ UNCHANGED <<storeVars, procVars, viewVars, toolVars, drawVars, textarea, exportVars,
                     oldTextVars>>

\* nextPageBtn click (renderer.js 462-468)
LegacyNextPage ==
    /\ legacyPageIndex < Len(editingPages) - 1
    /\ legacyPageIndex' = legacyPageIndex + 1
    /\ UNCHANGED <<editingPages, legacyTool, drawing, legacyPath>>
    /\ UNCHANGED <<storeVars, procVars, viewVars, toolVars, drawVars, textarea, exportVars,
                     oldTextVars>>

\* the currentPath pointerdown creates for a tool at (x, y)
LegacyNewPath(tool, x, y) ==
    IF tool = "pen" THEN [type |-> "pen", points |-> <<[x |-> x, y |-> y]>>]
    ELSE IF tool \in {"rect", "highlight", "arrow"}
         THEN [type |-> tool, x1 |-> x, y1 |-> y, x2 |-> x, y2 |-> y]
         ELSE [type |-> "text-box-preview", x1 |-> x, y1 |-> y, x2 |-> x, y2 |-> y]

\* canvas pointerdown (renderer.js 780-814)
LegacyPointerDown(e) ==
    LET pg == legacyPageIndex + 1
        c == LegacyCoords(e)
    IN  /\ pg \in DOMAIN editingPages
        /\ legacyTool # "pointer"
        /\ IF legacyTool \in {"pen", "rect", "highlight", "arrow", "text"}
           THEN /\ drawing' = [drawing EXCEPT ![pg] = TRUE]
                /\ legacyPath' = [legacyPath EXCEPT ![pg] = LegacyNewPath(legacyTool, c.x, c.y)]
           ELSE /\ drawing' = [drawing EXCEPT ![pg] = FALSE]
                /\ UNCHANGED legacyPath
        /\ UNCHANGED <<editingPages, legacyPageIndex, legacyTool>>
        /\ UNCHANGED <<storeVars, procVars, viewVars, toolVars, drawVars, textarea, exportVars,
                     oldTextVars>>

\* canvas pointermove (renderer.js 816-862)
LegacyPointerMove(e) ==
    LET pg == legacyPageIndex + 1
        c == LegacyCoords(e)
    IN  /\ pg \in DOMAIN editingPages
        /\ ~(~drawing[pg] \/ legacyPath[pg] = NoPath \/ legacyTool = "pointer")
        /\ legacyPath' =
             [legacyPath EXCEPT ![pg] =
                 IF @.type = "pen" THEN [@ EXCEPT !.points = Append(@, [x |-> c.x, y |-> c.y])]
                 ELSE [@ EXCEPT !.x2 = c.x, !.y2 = c.y]]
        /\ UNCHANGED <<editingPages, legacyPageIndex, legacyTool, drawing>>
        /\ UNCHANGED <<storeVars, procVars, viewVars, toolVars, drawVars, textarea, exportVars,
                     oldTextVars>>

\* The pointer leaves the canvas during a gesture.  initAnnotCanvas registers
\* pointerdown, pointermove and pointerup on the canvas and nothing else
\* (renderer.js 780-900): no handler runs.
LegacyPointerLeave ==
    /\ legacyPageIndex + 1 \in DOMAIN editingPages
    /\ drawing[legacyPageIndex + 1]
    /\ UNCHANGED legacyVars
    /\ UNCHANGED <<storeVars, procVars, viewVars, toolVars, drawVars, textarea, exportVars,
                     oldTextVars>>

\* pushAction(action) (renderer.js 744-748)
PushAction(pageObj, action) ==
    [pageObj EXCEPT !.actions = Append(@, action), !.redo = <<>>]

\* the normalisation of a rect / highlight in pointerup (renderer.js 888-894)
LegacyNormalize(path) ==
    IF path.type \in {"rect", "highlight"}
    THEN [path EXCEPT !.x1 = Min2(path.x1, path.x2), !.y1 = Min2(path.y1, path.y2),
                      !.x2 = Max2(path.x1, path.x2), !.y2 = Max2(path.y1, path.y2)]
    ELSE path

\* undoBtn click (renderer.js 1032-1040)
LegacyUndo ==
    LET pg == legacyPageIndex + 1
    IN  /\ pg \in DOMAIN editingPages
        /\ Len(editingPages[pg].actions) > 0
        /\ editingPages' =
             [editingPages EXCEPT ![pg] =
                 [@ EXCEPT !.actions = Front(@), !.redo = Append(@, Last(editingPages[pg].actions))]]
        /\ UNCHANGED <<legacyPageIndex, legacyTool, drawing, legacyPath>>
        /\ UNCHANGED <<storeVars, procVars, viewVars, toolVars, drawVars, textarea, exportVars,
                     oldTextVars>>

\* redoBtn click (renderer.js 1041-1049)
LegacyRedo ==
    LET pg == legacyPageIndex + 1
    IN  /\ pg \in DOMAIN editingPages
        /\ Len(editingPages[pg].redo) > 0
        /\ editingPages' =
             [editingPages EXCEPT ![pg] =
                 [@ EXCEPT !.redo = Front(@), !.actions = Append(@, Last(editingPages[pg].redo))]]
        /\ UNCHANGED <<legacyPageIndex, legacyTool, drawing, legacyPath>>
        /\ UNCHANGED <<storeVars, procVars, viewVars, toolVars, drawVars, textarea, exportVars,
                     oldTextVars>>

(***************************************************************************)
(* The text editor controls of the action-list editor (renderer.js         *)
(* 491-736, 757-778, 1056-1075).  textEditors holds the activations of     *)
(* showTextEditorControls whose controls, blur timer or outside-click      *)
(* handler are still alive.  A text action carries an id, which stands for *)
(* the identity of its object (indexOf, selectedTextAction); 0 is null.    *)
(* closedBy records how the controls were removed and is never read by     *)
(* the handlers.                                                           *)
(***************************************************************************)
\* the closure showTextEditorControls(action, pageObj, canvasRect, isExisting)
\* creates: the textarea card is as wide as Math.min(420, Math.max(160,
\* action.width || 220)), the textarea as high as Math.max(36,
\* action.height || 60), and textarea.focus() is called
NewTextEditor(action, pg, isExisting) ==
    [pg |-> pg, isExisting |-> isExisting, action |-> action,
     value |-> IF isExisting THEN action.text ELSE "",
     cardWidth |-> Min2(420, Max2(160, IF action.width # 0 THEN action.width ELSE 220)),
     areaHeight |-> Max2(36, IF action.height # 0 THEN action.height ELSE 60),
     attached |-> TRUE, active |-> "textarea", timer |-> FALSE,
     outside |-> "armed", closedBy |-> "none"]

\* controls.remove().  Whether a focused textarea that is removed from the
\* document gets a blur event depends on the browser engine: blurFires.
RemoveControls(ed, how, blurFires) ==
    IF ~ed.attached THEN ed
    ELSE [ed EXCEPT !.attached = FALSE, !.active = "none",
                    !.timer = @ \/ (ed.active = "textarea" /\ blurFires),
                    !.closedBy = how]

\* an activation nothing will run again is forgotten
LiveEditor(ed) == ed.attached \/ ed.timer \/ ed.outside # "off"

\* document.querySelector('.text-editor-controls'): 0 when there is none
OpenControls(eds) ==
    IF \E k \in DOMAIN eds : eds[k].attached
    THEN CHOOSE k \in DOMAIN eds :
             eds[k].attached /\ \A j \in 1..(k - 1) : ~eds[j].attached
    ELSE 0

\* showTextEditorControls(action, pageObj, canvasRect, isExisting)
ShowTextEditorControls(eds, action, pg, isExisting, blurFires) ==
    LET existing == OpenControls(eds)
        closed == IF existing = 0 THEN eds
                  ELSE [eds EXCEPT ![existing] = RemoveControls(@, "replaced", blurFires)]
    IN  [eds |-> Append(closed, NewTextEditor(action, pg, isExisting)),
         sel |-> IF isExisting THEN action.id ELSE 0]

\* openEditorForNewText(x, y, width, height, pageObj, canvasRect)
OpenEditorForNewText(eds, x, y, width, height, pg, blurFires) ==
    ShowTextEditorControls(eds,
        [type |-> "text", id |-> 0, text |-> "", x |-> x, y |-> y + 16, size |-> 16,
         width |-> width, height |-> height],
        pg, FALSE, blurFires)

\* pageObj.actions.indexOf(action): 0 when the object is not in the list
IndexOfAction(actions, id) ==
    IF \E i \in DOMAIN actions : actions[i].type = "text" /\ actions[i].id = id
    THEN CHOOSE i \in DOMAIN actions : actions[i].type = "text" /\ actions[i].id = id
    ELSE 0

\* the assignments commitText makes to the fields of an existing action,
\* wherever the object is held
UpdateAction(s, ed) ==
    [i \in DOMAIN s |->
        IF s[i].type = "text" /\ s[i].id = ed.action.id
        THEN [s[i] EXCEPT !.text = ed.value, !.width = ed.cardWidth,
                          !.height = ed.areaHeight,
                          !.y = IF s[i].y # 0 THEN s[i].y ELSE s[i].size + 4]
        ELSE s[i]]

\* commitText() of the activation eds[k] (renderer.js 632-677)
CommitText(pages, eds, k, seq, blurFires) ==
    LET ed == eds[k]
        pageObj == pages[ed.pg]
        idx == IndexOfAction(pageObj.actions, ed.action.id)
        newAction == [type |-> "text", id |-> seq + 1, text |-> ed.value,
                      x |-> ed.action.x,
                      y |-> IF ed.action.y # 0 THEN ed.action.y ELSE ed.action.size + 4,
                      size |-> 16, width |-> ed.cardWidth, height |-> ed.areaHeight]
        closed == [eds EXCEPT ![k] = RemoveControls(@, "commit", blurFires)]
    IN  IF Trim(ed.value) # ""
        THEN IF ed.isExisting
             THEN [pages |-> [pages EXCEPT ![ed.pg] =
                                 [actions |-> UpdateAction(pageObj.actions, ed),
                                  redo |-> <<>>]],
                   eds |-> closed, sel |-> 0, seq |-> seq]
             ELSE [pages |-> [pages EXCEPT ![ed.pg] = PushAction(@, newAction)],
                   eds |-> closed, sel |-> 0, seq |-> seq + 1]
        ELSE IF ed.isExisting /\ idx # 0
             THEN [pages |-> [pages EXCEPT ![ed.pg] =
                                 [actions |-> RemoveAt(pageObj.actions, idx),
                                  redo |-> <<>>]],
                   eds |-> closed, sel |-> 0, seq |-> seq]
             ELSE [pages |-> pages, eds |-> closed, sel |-> 0, seq |-> seq]

\* the editor state a handler leaves
InstallLegacyText(r) ==
    /\ editingPages' = r.pages
    /\ textEditors' = SelectSeq(r.eds, LiveEditor)
    /\ selectedTextAction' = r.sel
    /\ actionSeq' = r.seq
    /\ UNCHANGED <<legacyPageIndex, legacyTool, drawing, legacyPath, legacyExports>>
    /\ UNCHANGED <<storeVars, procVars, viewVars, toolVars, drawVars, textarea, exportVars>>

KeepLegacyText(eds, sel) ==
    [pages |-> editingPages, eds |-> eds, sel |-> sel, seq |-> actionSeq]

\* the activation whose textarea has the focus: 0 when there is none
FocusedEditor ==
    IF \E k \in DOMAIN textEditors : textEditors[k].attached /\ textEditors[k].active = "textarea"
    THEN CHOOSE k \in DOMAIN textEditors :
             textEditors[k].attached /\ textEditors[k].active = "textarea"
    ELSE 0

\* typing in the textarea
LegacyTextInput(v) ==
    /\ FocusedEditor # 0
    /\ InstallLegacyText(KeepLegacyText(
           [textEditors EXCEPT ![FocusedEditor] = [@ EXCEPT !.value = v]],
           selectedTextAction))

\* textarea keydown, Ctrl/Cmd+Enter (renderer.js 680-686)
LegacyTextCtrlEnter ==
    /\ FocusedEditor # 0
    /\ \E blurFires \in BOOLEAN :
         InstallLegacyText(CommitText(editingPages, textEditors, FocusedEditor,
                                      actionSeq, blurFires))

\* textarea keydown, Escape (renderer.js 687-691)
LegacyTextEscape ==
    /\ FocusedEditor # 0
    /\ \E blurFires \in BOOLEAN :
         InstallLegacyText(KeepLegacyText(
             [textEditors EXCEPT ![FocusedEditor] = RemoveControls(@, "escape", blurFires)],
             IF textEditors[FocusedEditor].isExisting THEN selectedTextAction ELSE 0))

\* textarea blur (renderer.js 695-701): the timer is started; the focus goes
\* to one of the two buttons of the controls or leaves them
LegacyTextBlur(to) ==
    /\ FocusedEditor # 0
    /\ InstallLegacyText(KeepLegacyText(
           [textEditors EXCEPT ![FocusedEditor] = [@ EXCEPT !.active = to, !.timer = TRUE]],
           selectedTextAction))

\* the textarea is focused again
LegacyTextFocus ==
    \E k \in DOMAIN textEditors :
        /\ textEditors[k].attached
        /\ textEditors[k].active # "textarea"
        /\ InstallLegacyText(KeepLegacyText(
               [textEditors EXCEPT ![k] = [@ EXCEPT !.active = "textarea"]],
               selectedTextAction))

\* the callback of the blur timer (renderer.js 696-700)
LegacyTextBlurTimer(k) ==
    /\ k \in DOMAIN textEditors
    /\ textEditors[k].timer
    /\ LET fired == [textEditors EXCEPT ![k] = [@ EXCEPT !.timer = FALSE]]
       IN  IF textEditors[k].active \in {"textarea", "button"}
           THEN InstallLegacyText(KeepLegacyText(fired, selectedTextAction))
           ELSE \E blurFires \in BOOLEAN :
                    InstallLegacyText(CommitText(editingPages, fired, k, actionSeq, blurFires))

\* the callback that installs the outside-click handler (renderer.js 707-716)
LegacyOutsideTimer(k) ==
    /\ k \in DOMAIN textEditors
    /\ textEditors[k].outside = "armed"
    /\ InstallLegacyText(KeepLegacyText(
           [textEditors EXCEPT ![k] = [@ EXCEPT !.outside = "on"]],
           selectedTextAction))

\* okBtn click (renderer.js 619-622)
LegacyOkClick ==
    \E k \in DOMAIN textEditors :
        /\ textEditors[k].attached
        /\ textEditors[k].active = "button"
        /\ \E blurFires \in BOOLEAN :
             InstallLegacyText(CommitText(editingPages, textEditors, k, actionSeq, blurFires))

\* deleteBtn click (renderer.js 588-604)
LegacyDeleteClick ==
    \E k \in DOMAIN textEditors :
        LET ed == textEditors[k]
            idx == IndexOfAction(editingPages[ed.pg].actions, ed.action.id)
            closed == [textEditors EXCEPT ![k] = RemoveControls(@, "delete", FALSE)]
        IN  /\ ed.attached
            /\ ed.active = "button"
            /\ IF ed.isExisting
               THEN IF idx # 0
                    THEN InstallLegacyText(
                             [pages |-> [editingPages EXCEPT ![ed.pg] =
                                            [actions |-> RemoveAt(@.actions, idx),
                                             redo |-> <<>>]],
                              eds |-> closed, sel |-> 0, seq |-> actionSeq])
                    ELSE InstallLegacyText(KeepLegacyText(textEditors, selectedTextAction))
               ELSE InstallLegacyText(KeepLegacyText(closed, 0))

\* the outside-click handlers that a click outside every controls runs
\* (renderer.js 708-714)
OutsideHandlers(eds, sel) ==
    [eds |-> [k \in DOMAIN eds |->
                 IF eds[k].outside = "on"
                 THEN [RemoveControls(eds[k], "outside", FALSE) EXCEPT !.outside = "off"]
                 ELSE eds[k]],
     sel |-> IF \E k \in DOMAIN eds : eds[k].outside = "on" /\ ~eds[k].isExisting
             THEN 0 ELSE sel]

\* the hit test of the click handler (renderer.js 766-770)
HitsText(a, x, y) ==
    /\ a.type = "text"
    /\ x >= a.x
    /\ x <= a.x + a.width
    /\ y >= a.y - a.height
    /\ y <= a.y + 6

\* the action the loop of the click handler stops at: 0 when it stops at none
ClickedAction(actions, x, y) ==
    IF \E i \in DOMAIN actions : HitsText(actions[i], x, y)
    THEN CHOOSE i \in DOMAIN actions :
             /\ HitsText(actions[i], x, y)
             /\ \A j \in 1..(i - 1) : ~HitsText(actions[j], x, y)
    ELSE 0

\* a click on the annotation canvas of the page shown: the canvas's click
\* handler (renderer.js 757-778), then the outside-click handlers
\* installed on the document
LegacyClick(e) ==
    LET pg == legacyPageIndex + 1
        x == e.clientX - LegacyRect.left
        y == e.clientY - LegacyRect.top
        hit == ClickedAction(editingPages[pg].actions, x, y)
    IN  /\ pg \in DOMAIN editingPages
        /\ \E blurFires \in BOOLEAN :
             LET shown == IF legacyTool = "pointer" /\ hit # 0
                          THEN ShowTextEditorControls(textEditors,
                                   editingPages[pg].actions[hit], pg, TRUE, blurFires)
                          ELSE [eds |-> textEditors, sel |-> selectedTextAction]
                 out == OutsideHandlers(shown.eds, shown.sel)
             IN  InstallLegacyText(KeepLegacyText(out.eds, out.sel))

\* the page the Delete key handler finds the selected action on: 0 if none
PageOfSelected ==
    IF \E p \in DOMAIN editingPages : IndexOfAction(editingPages[p].actions, selectedTextAction) # 0
    THEN CHOOSE p \in DOMAIN editingPages :
             /\ IndexOfAction(editingPages[p].actions, selectedTextAction) # 0
             /\ \A q \in 1..(p - 1) :
                    IndexOfAction(editingPages[q].actions, selectedTextAction) = 0
    ELSE 0

\* document keydown, Delete or Backspace (renderer.js 1056-1075)
LegacyDeleteKey ==
    /\ selectedTextAction # 0
    /\ FocusedEditor = 0
    /\ IF PageOfSelected # 0
       THEN InstallLegacyText(
               [pages |-> [editingPages EXCEPT ![PageOfSelected] =
                              [actions |-> RemoveAt(@.actions,
                                             IndexOfAction(@.actions, selectedTextAction)),
                               redo |-> <<>>]],
                eds |-> textEditors, sel |-> 0, seq |-> actionSeq])
       ELSE InstallLegacyText(KeepLegacyText(textEditors, selectedTextAction))

\* canvas pointerup (renderer.js 864-900): a text box preview wider and
\* higher than 20 opens the text editor controls and never becomes an
\* action here
LegacyPointerUp ==
    LET pg == legacyPageIndex + 1
        path == legacyPath[pg]
        width == Max2(path.x1, path.x2) - Min2(path.x1, path.x2)
        height == Max2(path.y1, path.y2) - Min2(path.y1, path.y2)
    IN  /\ pg \in DOMAIN editingPages
        /\ drawing[pg]
        /\ drawing' = [drawing EXCEPT ![pg] = FALSE]
        /\ legacyPath' = [legacyPath EXCEPT ![pg] = NoPath]
        /\ editingPages' =
             IF path = NoPath \/ path.type = "text-box-preview"
             THEN editingPages
             ELSE [editingPages EXCEPT ![pg] = PushAction(@, LegacyNormalize(path))]
        /\ IF path.type = "text-box-preview" /\ width > 20 /\ height > 20
           THEN \E blurFires \in BOOLEAN :
                    LET r == OpenEditorForNewText(textEditors,
                                 Min2(path.x1, path.x2), Min2(path.y1, path.y2),
                                 Max2(width, 120), Max2(height, 28), pg, blurFires)
                    IN  /\ textEditors' = SelectSeq(r.eds, LiveEditor)
                        /\ selectedTextAction' = r.sel
           ELSE UNCHANGED <<textEditors, selectedTextAction>>
        /\ UNCHANGED <<legacyPageIndex, legacyTool, actionSeq, legacyExports>>
        /\ UNCHANGED <<storeVars, procVars, viewVars, toolVars, drawVars, textarea, exportVars>>

(***************************************************************************)
(* Done in the action-list editor: exportEditedPdfAndSave (renderer.js     *)
(* 1078-1128).  pdf-lib was loaded when the module was evaluated (12-28).  *)
(***************************************************************************)
NewLegacyExport(pages) ==
    [pc |-> "create", i |-> 0, png |-> NotSent, doc |-> <<>>, sent |-> NotSent,
     errors |-> 0,
     hadAnnotations |-> \E n \in DOMAIN pages : Len(pages[n].actions) > 0,
     failedAt |-> "none"]

\* the for loop from page i on, up to its next await
LegacyExportLoop(ex, pages, i) ==
    IF i >= Len(pages) THEN [ex EXCEPT !.pc = "save", !.i = i, !.png = NotSent]
    ELSE [ex EXCEPT !.pc = "embed", !.i = i,
                    !.png = [page |-> i, actions |-> pages[i + 1].actions]]

LegacyExportStep ==
    /\ UNCHANGED <<legacyVars, selectedTextAction, textEditors, actionSeq>>
    /\ UNCHANGED <<storeVars, procVars, viewVars, toolVars, drawVars, textarea, exportVars>>

LegacyExportAt(k, pc) == k \in DOMAIN legacyExports /\ legacyExports[k].pc = pc

\* doneBtn click
LegacyDoneClick ==
    /\ Len(editingPages) > 0
    /\ legacyExports' = Append(legacyExports, NewLegacyExport(editingPages))
    /\ LegacyExportStep

\* PDFDocument.create() has resolved
LegacyExportCreated(k) ==
    /\ LegacyExportAt(k, "create")
    /\ legacyExports' = [legacyExports EXCEPT ![k] = LegacyExportLoop(@, editingPages, 0)]
    /\ LegacyExportStep

\* embedPng has resolved
LegacyExportEmbedded(k) ==
    /\ LegacyExportAt(k, "embed")
    /\ legacyExports' =
         [legacyExports EXCEPT ![k] =
             LegacyExportLoop([@ EXCEPT !.doc = Append(@, legacyExports[k].png)],
                              editingPages, legacyExports[k].i + 1)]
    /\ LegacyExportStep

\* outPdf.save() has resolved: saveBytes('edited.pdf', finalBytes)
LegacyExportSaved(k) ==
    /\ LegacyExportAt(k, "save")
    /\ legacyExports' =
         [legacyExports EXCEPT ![k] =
             [@ EXCEPT !.pc = "send",
                       !.sent = [kind |-> "encoded", pages |-> legacyExports[k].doc]]]
    /\ LegacyExportStep

\* saveBytes has resolved, saved or cancelled
LegacyExportSendDone(k) ==
    /\ LegacyExportAt(k, "send")
    /\ legacyExports' = [legacyExports EXCEPT ![k] = [@ EXCEPT !.pc = "done"]]
    /\ LegacyExportStep

\* the compositing throws or the promise awaited is rejected
LegacyExportThrows(k) ==
    /\ k \in DOMAIN legacyExports
    /\ legacyExports[k].pc \in {"create", "embed", "save"}
    /\ legacyExports' = [legacyExports EXCEPT ![k] = ExportCatch(@)]
    /\ LegacyExportStep

(***************************************************************************)
(* History variables of the scheduler.  They record what happened and are  *)
(* never read by the handlers above.                                       *)
(***************************************************************************)
Pages == 0..(NumPages - 1)

NoHist == [first |-> "none", up |-> FALSE, made |-> 0, done |-> FALSE]

\* The history h of page p after the addToRenderQueue calls `log` of one
\* step: `first` is the priority of the page's first call, `up` says a
\* priority call followed a non-priority first call, `made` counts the tasks
\* created (2 = two or more), `done` says a render of the page has ended.
HistAfter(h, log, p, ended) ==
    LET calls == SelectSeq(log, LAMBDA e : e.page = p)
        first == IF h.first # "none" \/ calls = <<>> THEN h.first
                 ELSE IF calls[1].priority THEN "high" ELSE "low"
    IN  [first |-> first,
         up |-> h.up \/ (first = "low" /\ \E i \in DOMAIN calls : calls[i].priority),
         made |-> Min2(2, h.made + Cardinality({i \in DOMAIN calls : calls[i].made})),
         done |-> h.done \/ ended]

RECURSIVE KeepQueued(_, _, _)
\* The entries of s from index i on whose page is queued in q, the last
\* entry of each page only.
KeepQueued(s, i, q) ==
    IF i > Len(s) THEN <<>>
    ELSE (IF /\ Queued(q, s[i].page)
             /\ \A j \in (i + 1)..Len(s) : s[j].page # s[i].page
          THEN <<s[i]>> ELSE <<>>) \o KeepQueued(s, i + 1, q)

\* The tasks created by the calls of log, in order.
Born(log) ==
    LET m == SelectSeq(log, LAMBDA e : e.made)
    IN  [i \in DOMAIN m |-> [page |-> m[i].page, born |-> m[i].priority]]

\* r: the state record the step's handler leaves (r.log: its
\* addToRenderQueue calls); fails / done: the pages whose render threw /
\* ended in the step; nav: the pages the user asked for; reset: the page
\* store was replaced.
TrackSched(r, fails, done, nav, reset) ==
    \E v \in {r} : \E a \in {arrival \o Born(v.log)} :
        /\ lastAdds' = v.log
        /\ taskHist' =
             IF reset THEN [p \in Pages |-> NoHist]
             ELSE [p \in Pages |-> HistAfter(taskHist[p], v.log, p, p \in done)]
        /\ arrival' = KeepQueued(a, 1, v.q)
        /\ failed' = IF reset THEN {} ELSE (failed \ nav) \cup fails

\* pageRenderQueue = [] of openEditor and of the back button
Emptied == [S0 EXCEPT !.q = <<>>]

UserEvent == budget > 0 /\ budget' = budget - 1

\* no commit was made by the last step
NoCommit == [made |-> FALSE]

\* What a step that took the page store from `before` to `after` committed
\* on page cur: the page's list and undo stack before the step, the record
\* appended, the gesture's first and last pointer positions on the canvas
\* and the view the step was made in.
CommitOf(before, after, cur, start, end) ==
    IF /\ HasPage(before, cur)
       /\ HasPage(after, cur)
       /\ Len(PageAt(after, cur).annotations) = Len(PageAt(before, cur).annotations) + 1
    THEN [made |-> TRUE, page |-> cur,
          before |-> PageAt(before, cur).annotations,
          undoBefore |-> PageAt(before, cur).undoStack,
          stored |-> Last(PageAt(after, cur).annotations),
          start |-> start, end |-> end,
          container |-> container, zoom |-> zoomLevel]
    ELSE NoCommit

Forget == commit' = NoCommit

(***************************************************************************)
(* Initial state: the renderer module has been evaluated, no document is   *)
(* open.  A canvas element starts 300 x 150.                               *)
(***************************************************************************)
NoRun == [phase |-> "off", n |-> 0, u |-> 0, r |-> 0, top |-> <<>>]

\* the action-list editor with no document
InitNoLegacy ==
    /\ editingPages = <<>>
    /\ legacyPageIndex = 0
    /\ legacyTool = "pointer"
    /\ drawing = <<>>
    /\ legacyPath = <<>>
    /\ selectedTextAction = 0
    /\ textEditors = <<>>
    /\ actionSeq = 0
    /\ legacyExports = <<>>

\* the lazy-loading editor with no document
InitClosed ==
    /\ editorPages = <<>>
    /\ currentPageIndex = 0
    /\ loadedPdfDocument = FALSE
    /\ editorVisible = FALSE
    /\ zoomLevel = ZOOM_ONE
    /\ panX = 0
    /\ panY = 0
    /\ container = [width |-> 8, height |-> 8]
    /\ mainCanvas = [width |-> 300, height |-> 150]
    /\ pageRenderQueue = <<>>
    /\ isProcessingQueue = FALSE
    /\ loops = <<>>
    /\ openPc = "idle"
    /\ openStale = FALSE
    /\ currentTool = "pointer"
    /\ currentColor = "#ff0000"
    /\ tempAnnotation = NoShape
    /\ currentPath = <<>>
    /\ textInputActive = FALSE
    /\ annotMouseDown = FALSE
    /\ annotStartX = 0
    /\ annotStartY = 0
    /\ isPanning = FALSE
    /\ textarea = NoTextarea
    /\ originalPdfBytes = "null"
    /\ pdfLib = "none"
    /\ exports = <<>>

InitProgram == InitClosed /\ InitNoLegacy

InitHist ==
    /\ lastAdds = <<>>
    /\ taskHist = [p \in Pages |-> NoHist]
    /\ arrival = <<>>
    /\ failed = {}
    /\ budget = MaxEvents
    /\ run = NoRun
    /\ commit = NoCommit

Init == InitProgram /\ InitHist

(***************************************************************************)
(* The render scheduler under every interleaving of the user's events      *)
(* with the continuations of openEditor and of the drain loops.            *)
(***************************************************************************)
UserStartOpen ==
    UserEvent /\ StartOpen /\ TrackSched(Emptied, {}, {}, {}, TRUE) /\ UNCHANGED <<run, commit>>

UserThumbnailClick ==
    \E i \in Pages :
        /\ UserEvent
        /\ ThumbnailClick(i)
        /\ TrackSched(ThumbnailClickR(i), {}, {}, {i}, FALSE)
        /\ UNCHANGED <<run, commit>>

UserResize ==
    /\ UserEvent
    /\ Resize(container)
    /\ TrackSched(ResizeR(container), {}, {}, {currentPageIndex}, FALSE)
    /\ UNCHANGED <<run, commit>>

UserBackToMerger ==
    UserEvent /\ BackToMerger /\ TrackSched(Emptied, {}, {}, {}, TRUE) /\ UNCHANGED <<run, commit>>

SysOpenLoaded ==
    OpenLoaded /\ TrackSched(S0, {}, {}, {}, FALSE) /\ UNCHANGED <<budget, run, commit>>

SysOpenRejected ==
    OpenRejected /\ TrackSched(S0, {}, {}, {}, FALSE) /\ UNCHANGED <<budget, run, commit>>

SysOpenFirstDone ==
    \E ok \in BOOLEAN :
        /\ OpenFirstDone(ok)
        /\ TrackSched(OpenFirstDoneR(ok), IF ok THEN {} ELSE {0}, {0}, {}, FALSE)
        /\ UNCHANGED <<budget, run, commit>>

SysLoopRenderDone ==
    \E k \in DOMAIN loops, ok \in BOOLEAN :
        /\ LoopRenderDone(k, ok)
        /\ TrackSched(LoopRenderDoneR(k, ok),
                      IF ok \/ loops[k].stale THEN {} ELSE {loops[k].page},
                      IF loops[k].stale THEN {} ELSE {loops[k].page}, {}, FALSE)
        /\ UNCHANGED <<budget, run, commit>>

SysLoopWake ==
    \E k \in DOMAIN loops :
        /\ LoopWake(k)
        /\ TrackSched(LoopWakeR(k), {}, {}, {}, FALSE)
        /\ UNCHANGED <<budget, run, commit>>

SchedSystem ==
    SysOpenLoaded \/ SysOpenRejected \/ SysOpenFirstDone \/ SysLoopRenderDone \/ SysLoopWake

SchedNext ==
    \/ UserStartOpen
    \/ UserThumbnailClick
    \/ UserResize
    \/ UserBackToMerger
    \/ SchedSystem

SpecSched == Init /\ [][SchedNext]_vars

\* Under fair scheduling of the continuations: a resolved promise or an
\* expired timer is eventually run by the event loop.
SpecSchedFair == Init /\ [][SchedNext]_vars /\ WF_vars(SchedSystem)

(***************************************************************************)
(* Properties of the render scheduler.                                     *)
(***************************************************************************)
InFlight(p) ==
    \E k \in DOMAIN loops : loops[k].st = "raster" /\ loops[k].page = p /\ ~loops[k].stale

Pos(q, p) == CHOOSE i \in DOMAIN q : q[i].pageIndex = p

\* C2: when a page is first requested without priority and then with
\* priority, before any task of the page has ended, exactly one task has
\* been created for the page, and while queued it has priority.
C2_OneTaskAtHighPriority ==
    \A p \in Pages :
        (taskHist[p].first = "low" /\ taskHist[p].up /\ ~taskHist[p].done)
        => /\ taskHist[p].made = 1
           /\ \A i \in DOMAIN pageRenderQueue :
                pageRenderQueue[i].pageIndex = p => pageRenderQueue[i].priority

\* C3: the queue holds at most one task per page index, and a call for a
\* page that is already queued leaves the queue's length and its other
\* tasks as they were, changing at most that task's priority from false to
\* true.
C3_OneTaskPerPage ==
    /\ \A i, j \in DOMAIN pageRenderQueue :
         pageRenderQueue[i].pageIndex = pageRenderQueue[j].pageIndex => i = j
    /\ \A n \in DOMAIN lastAdds :
         LET e == lastAdds[n]
         IN  Queued(e.before, e.page)
             => /\ Len(e.after) = Len(e.before)
                /\ \A i \in DOMAIN e.before :
                     /\ e.after[i].pageIndex = e.before[i].pageIndex
                     /\ e.before[i].pageIndex # e.page => e.after[i] = e.before[i]
                     /\ e.before[i].pageIndex = e.page
                        => e.after[i].priority = (e.before[i].priority \/ e.priority)

\* a priority call has upgraded a queued non-priority task
C3_Upgraded ==
    \E n \in DOMAIN lastAdds :
        /\ lastAdds[n].priority
        /\ \E i \in DOMAIN lastAdds[n].before :
             /\ lastAdds[n].before[i].pageIndex = lastAdds[n].page
             /\ ~lastAdds[n].before[i].priority
             /\ lastAdds[n].after[i].priority

\* C4: in the order the scheduler takes the queued tasks, every priority
\* task comes before every non-priority task, and of two tasks that were
\* created with the same priority the one created first comes first.
C4_PickOrder ==
    LET q == SortQueue(pageRenderQueue)
    IN  /\ \A i, j \in DOMAIN q : (q[i].priority /\ ~q[j].priority) => i < j
        /\ \A i, j \in DOMAIN arrival :
             (/\ i < j
              /\ arrival[i].born = arrival[j].born
              /\ q[Pos(q, arrival[i].page)].priority = arrival[i].born
              /\ q[Pos(q, arrival[j].page)].priority = arrival[j].born)
             => Pos(q, arrival[i].page) < Pos(q, arrival[j].page)

\* C5: at most one full-page rasterization is in flight, counting the
\* render openEditor awaits and the renders of all drain loops.
C5_OneRasterInFlight ==
    Cardinality({k \in DOMAIN loops : loops[k].st = "raster"})
        + (IF openPc = "first" THEN 1 ELSE 0) <= 1

\* C6: a page whose rasterization failed stays unrendered without a raster
\* surface and is neither queued nor being rendered again until the user
\* asks for it.
C6_NoAutomaticRetry ==
    \A p \in failed :
        /\ HasPage(editorPages, p)
        /\ ~PageAt(editorPages, p).rendered
        /\ PageAt(editorPages, p).canvas = NoCanvas
        /\ ~Queued(pageRenderQueue, p)
        /\ ~InFlight(p)

Quiescent == Len(pageRenderQueue) = 0 /\ ~isProcessingQueue

\* C7: whatever renders fail, the drain loop goes on: from every state the
\* scheduler reaches an empty queue with isProcessingQueue = false.
C7_QueueDrains == (~Quiescent) ~> Quiescent

\* a render has failed and the scheduler has drained all the same
C7_DrainedAfterFailure == failed # {} /\ Quiescent /\ loops = <<>>

(***************************************************************************)
(* The view of an open document: every page has been rasterized and the    *)
(* scheduler has drained (a state SpecSched reaches), page 0 is displayed. *)
(***************************************************************************)
Containers == {[width |-> 8, height |-> 8], [width |-> 16, height |-> 12]}

RenderedPages ==
    [i \in 1..NumPages |-> [NewPage EXCEPT !.rendered = TRUE, !.canvas = RasterOf(i - 1)]]

InitEditing ==
    /\ editorPages = RenderedPages
    /\ currentPageIndex = 0
    /\ loadedPdfDocument = TRUE
    /\ editorVisible = TRUE
    /\ zoomLevel = ZOOM_ONE
    /\ panX = 0
    /\ panY = 0
    /\ container = [width |-> 8, height |-> 8]
    /\ mainCanvas = DisplaySize([width |-> 8, height |-> 8], RasterOf(0), ZOOM_ONE)
    /\ pageRenderQueue = <<>>
    /\ isProcessingQueue = FALSE
    /\ loops = <<>>
    /\ openPc = "idle"
    /\ openStale = FALSE
    /\ currentTool = "pointer"
    /\ currentColor = "#ff0000"
    /\ tempAnnotation = NoShape
    /\ currentPath = <<>>
    /\ textInputActive = FALSE
    /\ annotMouseDown = FALSE
    /\ annotStartX = 0
    /\ annotStartY = 0
    /\ isPanning = FALSE
    /\ textarea = NoTextarea
    /\ originalPdfBytes = "bytes"
    /\ pdfLib = "none"
    /\ exports = <<>>
    /\ InitNoLegacy

\* the state InitEditing describes, as SpecSched reaches it
OpenedAndRendered ==
    /\ editorPages = RenderedPages
    /\ currentPageIndex = 0
    /\ loadedPdfDocument
    /\ editorVisible
    /\ mainCanvas = DisplaySize(container, RasterOf(0), ZOOM_ONE)
    /\ Quiescent
    /\ loops = <<>>
    /\ openPc = "idle"

ViewZoomIn == ZoomIn /\ UNCHANGED histVars

ViewZoomOut == ZoomOut /\ UNCHANGED histVars

ViewResetZoom == ResetZoom /\ UNCHANGED histVars

ViewPanDown == PanDown /\ UNCHANGED histVars

ViewPanMove ==
    \E dx, dy \in {-1, 0, 1} :
        /\ panX + dx \in -MaxPan..MaxPan
        /\ panY + dy \in -MaxPan..MaxPan
        /\ PanMove(dx, dy)
        /\ UNCHANGED histVars

ViewPanUp == PanUp /\ UNCHANGED histVars

ViewThumbnailClick == \E i \in Pages : ThumbnailClick(i) /\ UNCHANGED histVars

ViewResize == \E c \in Containers : Resize(c) /\ UNCHANGED histVars

CoordNext ==
    \/ ViewZoomIn
    \/ ViewZoomOut
    \/ ViewResetZoom
    \/ ViewPanDown
    \/ ViewPanMove
    \/ ViewPanUp
    \/ ViewThumbnailClick
    \/ ViewResize

\* an open document, nothing recorded yet
InitOpened == InitEditing /\ InitHist

SpecCoord == InitOpened /\ [][CoordNext]_vars

(***************************************************************************)
(* Properties of the coordinate transform.                                 *)
(***************************************************************************)
CurHasRaster ==
    /\ HasPage(editorPages, currentPageIndex)
    /\ PageAt(editorPages, currentPageIndex).canvas # NoCanvas

CurRaster == PageAt(editorPages, currentPageIndex).canvas

GridPts == {Pt(RInt(x), RInt(y)) : x \in 0..MaxCoord, y \in 0..MaxCoord}

\* the mouse event of a pointer over the display pixel d of the page when
\* the pan offset is (px, py)
PointerOver(d, px, py) ==
    [clientX |-> Layout.left + px + d.x.num, clientY |-> Layout.top + py + d.y.num]

D2O(main, pt) == DisplayToOriginal(editorPages, currentPageIndex, main, pt)

O2D(main, pt) == OriginalToDisplay(editorPages, currentPageIndex, main, pt)

C9_PointerOverScale ==
    CurHasRaster =>
        LET displayScale == RMul[BaseScale(container, CurRaster), ZoomOf(zoomLevel)]
        IN  \A d \in GridPts :
                D2O(mainCanvas, GetAnnotCoords(PointerOver(d, panX, panY), mainCanvas, panX, panY))
                    = Pt(RDiv[d.x, displayScale], RDiv[d.y, displayScale])

(***************************************************************************)
(* Commits, undos and redos on the displayed page of an open document.     *)
(* Every commit is a rectangle drag from the page's corner; the drag's end *)
(* is chosen by the number of annotations on the page, so that consecutive *)
(* commits add different records.  run follows the commits made since the  *)
(* page's list was last empty, and the undos and redos that follow them.   *)
(***************************************************************************)
CurAnnotations == PageAt(editorPages, currentPageIndex).annotations

GestureEnd(k) == Pt(RInt(3 + (k % 4)), RInt(3 + ((k \div 4) % 6)))

RunCommit(rn, before, after) ==
    IF Len(after) # Len(before) + 1 THEN NoRun
    ELSE IF before = <<>>
         THEN [phase |-> "commits", n |-> 1, u |-> 0, r |-> 0, top |-> after]
         ELSE IF rn.phase = "commits"
              THEN [rn EXCEPT !.n = @ + 1, !.top = after]
              ELSE NoRun

RunUndo(rn) ==
    IF rn.phase = "commits" THEN [rn EXCEPT !.phase = "undos", !.u = 1]
    ELSE IF rn.phase = "undos" /\ rn.u < rn.n THEN [rn EXCEPT !.u = @ + 1]
         ELSE NoRun

RunRedo(rn) ==
    IF rn.phase = "undos" /\ rn.u = rn.n THEN [rn EXCEPT !.phase = "redos", !.r = 1]
    ELSE IF rn.phase = "redos" /\ rn.r < rn.n THEN [rn EXCEPT !.r = @ + 1]
         ELSE NoRun

EditSelectTool ==
    SelectTool("rectangle") /\ Forget /\ UNCHANGED <<schedHist, budget, run>>

EditMouseDown ==
    /\ Len(CurAnnotations) < MaxShapes
    /\ MouseDown(PointerOver(Pt(RInt(0), RInt(0)), panX, panY))
    /\ Forget
    /\ UNCHANGED <<schedHist, budget, run>>

EditMouseUp ==
    /\ Len(CurAnnotations) < MaxShapes
    /\ MouseUp(PointerOver(GestureEnd(Len(CurAnnotations)), panX, panY))
    /\ run' = RunCommit(run, CurAnnotations, CurAnnotations')
    /\ commit' = CommitOf(editorPages, editorPages', currentPageIndex,
                          Pt(annotStartX, annotStartY),
                          GestureEnd(Len(CurAnnotations)))
    /\ UNCHANGED <<schedHist, budget>>

EditUndo == Undo /\ run' = RunUndo(run) /\ Forget /\ UNCHANGED <<schedHist, budget>>

EditRedo == Redo /\ run' = RunRedo(run) /\ Forget /\ UNCHANGED <<schedHist, budget>>

UndoNext ==
    \/ EditSelectTool
    \/ EditMouseDown
    \/ EditMouseUp
    \/ EditUndo
    \/ EditRedo

SpecUndo == InitOpened /\ [][UndoNext]_vars

\* C1 as stated: for every N >= 1, after N commits on a page whose list was
\* empty, N consecutive undos leave the page's annotations empty and N
\* further redos restore the list that existed after the N-th commit.
C1_UndoRedoAnyDepth ==
    /\ (run.phase = "undos" /\ run.u = run.n) => CurAnnotations = <<>>
    /\ (run.phase = "redos" /\ run.r = run.n) => CurAnnotations = run.top

\* C1, amended: for every N with 1 <= N <= 50 (the depth of the undo
\* stack), after N commits on a page whose list was empty, N consecutive
\* undos leave the page's annotations empty and N further redos restore
\* the list that existed after the N-th commit.
C1_UndoRedoWithinDepth ==
    run.n <= MAX_UNDO =>
        /\ (run.phase = "undos" /\ run.u = run.n) => CurAnnotations = <<>>
        /\ (run.phase = "redos" /\ run.r = run.n) => CurAnnotations = run.top

\* a run of as many commits as the undo stack is deep has been undone and
\* redone completely
C1_FullDepthRun ==
    /\ run.phase = "redos"
    /\ run.n = MAX_UNDO
    /\ run.r = run.n
    /\ Len(CurAnnotations) = MAX_UNDO
    /\ CurAnnotations = run.top

\* C17: every page's undoStack holds at most 50 snapshots, whatever the
\* order of commits, undos and redos, and a commit made when the stack
\* holds 50 drops the oldest snapshot and keeps the other 49 under the new
\* one.
C17_UndoStackBounded ==
    /\ \A i \in DOMAIN editorPages : Len(editorPages[i].undoStack) <= MAX_UNDO
    /\ (commit.made /\ Len(commit.undoBefore) = MAX_UNDO)
         => PageAt(editorPages, commit.page).undoStack
                = Append(Tail(commit.undoBefore), commit.before)

\* a commit has been made on a full undo stack
C17_CommitOnFullStack ==
    /\ commit.made
    /\ Len(commit.undoBefore) = MAX_UNDO
    /\ Len(PageAt(editorPages, commit.page).undoStack) = MAX_UNDO

(***************************************************************************)
(* The action-list editor with a document of LegacyPages pages open        *)
(* (openEditorWithPdf, renderer.js 387-441, has run).                      *)
(***************************************************************************)
InitLegacy ==
    /\ InitClosed
    /\ editingPages = [i \in 1..LegacyPages |-> [actions |-> <<>>, redo |-> <<>>]]
    /\ legacyPageIndex = 0
    /\ legacyTool = "pointer"
    /\ drawing = [i \in 1..LegacyPages |-> FALSE]
    /\ legacyPath = [i \in 1..LegacyPages |-> NoPath]
    /\ selectedTextAction = 0
    /\ textEditors = <<>>
    /\ actionSeq = 0
    /\ legacyExports = <<>>

\* the tools chosen here; the arrow and text tools are left to their buttons
LegacyTools == {"pointer", "pen", "rect", "highlight"}

LegacyEvents ==
    {[clientX |-> LegacyRect.left + d, clientY |-> LegacyRect.top + d] : d \in {0, 2}}

RECURSIVE TotalActions(_)
TotalActions(pages) ==
    IF pages = <<>> THEN 0
    ELSE Len(Head(pages).actions) + TotalActions(Tail(pages))

OldSelectTool == \E tool \in LegacyTools : LegacySelectTool(tool) /\ UNCHANGED histVars

\* pages are changed between gestures
OldPrevPage ==
    ~drawing[legacyPageIndex + 1] /\ LegacyPrevPage /\ UNCHANGED histVars

OldNextPage ==
    ~drawing[legacyPageIndex + 1] /\ LegacyNextPage /\ UNCHANGED histVars

OldPointerDown ==
    \E e \in LegacyEvents :
        /\ TotalActions(editingPages) < MaxActions
        /\ LegacyPointerDown(e)
        /\ UNCHANGED histVars

OldPointerMove ==
    \E e \in LegacyEvents :
        /\ legacyPath[legacyPageIndex + 1].type = "pen"
             => Len(legacyPath[legacyPageIndex + 1].points) < MaxPoints
        /\ LegacyPointerMove(e)
        /\ UNCHANGED histVars

OldPointerUp ==
    /\ TotalActions(editingPages) < MaxActions
    /\ LegacyPointerUp
    /\ UNCHANGED histVars

OldUndo == LegacyUndo /\ UNCHANGED histVars

OldRedo == LegacyRedo /\ TotalActions(editingPages) < MaxActions /\ UNCHANGED histVars

LegacyNext ==
    \/ OldSelectTool
    \/ OldPrevPage
    \/ OldNextPage
    \/ OldPointerDown
    \/ OldPointerMove
    \/ OldPointerUp
    \/ OldUndo
    \/ OldRedo

InitLegacyOpened == InitLegacy /\ InitHist

SpecLegacy == InitLegacyOpened /\ [][LegacyNext]_vars

\* C10: a rectangle or highlight gesture whose pointer-up is at the
\* position of its pointer-down appends nothing to the page's list: no list
\* holds a rectangle or highlight of zero width and zero height.
C10_NoZeroSizeShape ==
    \A pg \in DOMAIN editingPages :
        \A i \in DOMAIN editingPages[pg].actions :
            LET a == editingPages[pg].actions[i]
            IN  a.type \in {"rect", "highlight"} => ~(a.x1 = a.x2 /\ a.y1 = a.y2)

(***************************************************************************)
(* Drawing on an open document whose scheduler has drained: each page was  *)
(* rasterized or its render failed (states SpecSched reaches), a tool has  *)
(* been chosen.  The user draws, types, undoes, zooms, pans, resizes and   *)
(* changes pages; the renders a click asks for run in between.             *)
(***************************************************************************)
DrawTools == {"pointer", "pen", "rectangle", "highlight", "line", "text"}

\* the points of the displayed page the pointer is pressed, moved and released at
DrawPts == {Pt(RInt(1), RInt(1)), Pt(RInt(5), RInt(6))}

TextValues == {"", " ", "a"}

\* the pages of an open document of which those in F failed to render
PagesWithFailed(F) ==
    [i \in 1..NumPages |->
        IF (i - 1) \in F THEN NewPage
        ELSE [NewPage EXCEPT !.rendered = TRUE, !.canvas = RasterOf(i - 1)]]

InitDrawing ==
    /\ \E F \in SUBSET Pages :
         /\ editorPages = PagesWithFailed(F)
         /\ mainCanvas = IF 0 \in F THEN [width |-> 300, height |-> 150]
                         ELSE DisplaySize([width |-> 8, height |-> 8], RasterOf(0),
                                          ZOOM_ONE)
    /\ currentPageIndex = 0
    /\ loadedPdfDocument = TRUE
    /\ editorVisible = TRUE
    /\ zoomLevel = ZOOM_ONE
    /\ panX = 0
    /\ panY = 0
    /\ container = [width |-> 8, height |-> 8]
    /\ pageRenderQueue = <<>>
    /\ isProcessingQueue = FALSE
    /\ loops = <<>>
    /\ openPc = "idle"
    /\ openStale = FALSE
    /\ currentTool \in DrawTools
    /\ currentColor = "#ff0000"
    /\ tempAnnotation = NoShape
    /\ currentPath = <<>>
    /\ textInputActive = FALSE
    /\ annotMouseDown = FALSE
    /\ annotStartX = 0
    /\ annotStartY = 0
    /\ isPanning = FALSE
    /\ textarea = NoTextarea
    /\ originalPdfBytes = "bytes"
    /\ pdfLib = "none"
    /\ exports = <<>>
    /\ InitNoLegacy
    /\ lastAdds = <<>>
    /\ taskHist = [p \in Pages |-> NoHist]
    /\ arrival = <<>>
    /\ failed = {}
    /\ budget = MaxDrawEvents
    /\ run = NoRun
    /\ commit = NoCommit

\* the state InitDrawing describes with page 0 failed and page 1 rendered,
\* as SpecSched reaches it
OpenedWithFailedPage ==
    /\ editorPages = PagesWithFailed({0})
    /\ mainCanvas = [width |-> 300, height |-> 150]
    /\ currentPageIndex = 0
    /\ loadedPdfDocument
    /\ editorVisible
    /\ Quiescent
    /\ loops = <<>>
    /\ openPc = "idle"

\* a step of the user that commits nothing
Quiet == UserEvent /\ Forget /\ UNCHANGED <<schedHist, run>>

\* a step of the event loop
Background == Forget /\ UNCHANGED <<schedHist, budget, run>>

DrawSelectTool == \E tool \in DrawTools : SelectTool(tool) /\ Quiet

DrawMouseDown == \E d \in DrawPts : MouseDown(PointerOver(d, panX, panY)) /\ Quiet

DrawMouseMove == \E d \in DrawPts : MouseMove(PointerOver(d, panX, panY)) /\ Quiet

DrawMouseUp ==
    \E d \in DrawPts :
        /\ MouseUp(PointerOver(d, panX, panY))
        /\ UserEvent
        /\ commit' = CommitOf(editorPages, editorPages', currentPageIndex,
                              Pt(annotStartX, annotStartY),
                              GetAnnotCoords(PointerOver(d, panX, panY), mainCanvas,
                                             panX, panY))
        /\ UNCHANGED <<schedHist, run>>

DrawMouseLeave == MouseLeave /\ Quiet

DrawUndo == Undo /\ Quiet

DrawRedo == Redo /\ Quiet

DrawZoomIn == ZoomIn /\ Quiet

DrawZoomOut == ZoomOut /\ Quiet

DrawResetZoom == ResetZoom /\ Quiet

DrawPanDown == PanDown /\ Quiet

DrawPanMove ==
    \E dx, dy \in {-1, 0, 1} :
        /\ panX + dx \in -MaxPan..MaxPan
        /\ panY + dy \in -MaxPan..MaxPan
        /\ PanMove(dx, dy)
        /\ Quiet

DrawPanUp == PanUp /\ Quiet

DrawResize == \E c \in Containers : Resize(c) /\ Quiet

DrawThumbnailClick == \E i \in Pages : ThumbnailClick(i) /\ Quiet

DrawLoopRenderDone ==
    \E k \in DOMAIN loops, ok \in BOOLEAN : LoopRenderDone(k, ok) /\ Background

DrawLoopWake == \E k \in DOMAIN loops : LoopWake(k) /\ Background

\* the canvas position of the open overlay, as completeTextInput computes it
TextAt ==
    LET rect == BoundingClientRect(mainCanvas, panX, panY)
    IN  Pt(RInt(textarea.x - (rect.left - ContainerLayout.left)),
           RInt(textarea.y - (rect.top - ContainerLayout.top)))

TextCommitted ==
    commit' = CommitOf(editorPages, editorPages', currentPageIndex, TextAt, TextAt)

DrawTextInput == \E v \in TextValues : TextInput(v) /\ Quiet

DrawTextEscape == TextEscape /\ UserEvent /\ TextCommitted /\ UNCHANGED <<schedHist, run>>

DrawTextCtrlEnter ==
    TextCtrlEnter /\ UserEvent /\ TextCommitted /\ UNCHANGED <<schedHist, run>>

DrawTextBlur == TextBlur /\ Quiet

DrawTextFocus == TextFocus /\ Quiet

DrawTextBlurTimer ==
    TextBlurTimer /\ TextCommitted /\ UNCHANGED <<schedHist, budget, run>>

DrawTextOldBlurTimer == TextOldBlurTimer /\ Background

DrawNext ==
    \/ DrawSelectTool
    \/ DrawMouseDown
    \/ DrawMouseMove
    \/ DrawMouseUp
    \/ DrawMouseLeave
    \/ DrawUndo
    \/ DrawRedo
    \/ DrawZoomIn
    \/ DrawZoomOut
    \/ DrawResetZoom
    \/ DrawPanDown
    \/ DrawPanMove
    \/ DrawPanUp
    \/ DrawResize
    \/ DrawThumbnailClick
    \/ DrawLoopRenderDone
    \/ DrawLoopWake
    \/ DrawTextInput
    \/ DrawTextEscape
    \/ DrawTextCtrlEnter
    \/ DrawTextBlur
    \/ DrawTextFocus
    \/ DrawTextBlurTimer
    \/ DrawTextOldBlurTimer

SpecDraw == InitDrawing /\ [][DrawNext]_vars

(***************************************************************************)
(* Properties of the annotations drawn.                                    *)
(***************************************************************************)
\* C12: every rectangle or highlight in a page's annotations is normalized:
\* (x, y) is its top-left corner, its width and its height are not
\* negative, whatever the direction it was dragged in.
C12_ShapesNormalized ==
    \A i \in DOMAIN editorPages :
        \A n \in DOMAIN editorPages[i].annotations :
            LET a == editorPages[i].annotations[n]
            IN  a.type \in {"rectangle", "highlight"}
                    => RLeq(RInt(0), a.width) /\ RLeq(RInt(0), a.height)

\* what zoom, pan and resize must leave alone
StoredData ==
    [i \in DOMAIN editorPages |->
        <<editorPages[i].annotations, editorPages[i].undoStack,
          editorPages[i].redoStack>>]

StoredStart(a) ==
    IF a.type \in {"rectangle", "highlight"} THEN Pt(a.x, a.y)
    ELSE IF a.type = "line" THEN Pt(a.x1, a.y1)
    ELSE IF a.type = "pen" THEN a.points[1]
    ELSE Pt(a.x, RSub[a.y, a.fontSize])

StoredEnd(a) ==
    IF a.type \in {"rectangle", "highlight"}
    THEN Pt(RAdd[a.x, a.width], RAdd[a.y, a.height])
    ELSE IF a.type = "line" THEN Pt(a.x2, a.y2)
    ELSE IF a.type = "pen" THEN a.points[Len(a.points)]
    ELSE Pt(a.x, RSub[a.y, a.fontSize])

\* C14: the coordinates a commit stores are the pointer's positions divided
\* by the display scale in effect (the fit scale of the page in the
\* container times the zoom level), also when the page has no raster
\* surface.
C14_StoredIsCanonical ==
    commit.made =>
        LET displayScale == RMul[BaseScale(commit.container, RasterOf(commit.page)),
                                 ZoomOf(commit.zoom)]
        IN  /\ StoredStart(commit.stored)
                 = Pt(RDiv[commit.start.x, displayScale],
                      RDiv[commit.start.y, displayScale])
            /\ StoredEnd(commit.stored)
                 = Pt(RDiv[commit.end.x, displayScale],
                      RDiv[commit.end.y, displayScale])

TextCommitMade == commit.made /\ commit.stored.type = "text"

(***************************************************************************)
(* Text entry in the action-list editor: a document is open, the text tool *)
(* is selected.  Text boxes are dragged from two corners, so that two      *)
(* texts overlap; the user's events are counted by budget, the timers are  *)
(* steps of the event loop.                                                *)
(***************************************************************************)
InitLegacyText ==
    /\ InitClosed
    /\ editingPages = [i \in 1..LegacyPages |-> [actions |-> <<>>, redo |-> <<>>]]
    /\ legacyPageIndex = 0
    /\ legacyTool = "text"
    /\ drawing = [i \in 1..LegacyPages |-> FALSE]
    /\ legacyPath = [i \in 1..LegacyPages |-> NoPath]
    /\ selectedTextAction = 0
    /\ textEditors = <<>>
    /\ actionSeq = 0
    /\ legacyExports = <<>>
    /\ lastAdds = <<>>
    /\ taskHist = [p \in Pages |-> NoHist]
    /\ arrival = <<>>
    /\ failed = {}
    /\ budget = MaxTextEvents
    /\ run = NoRun
    /\ commit = NoCommit

ClientPoint(x, y) == [clientX |-> LegacyRect.left + x, clientY |-> LegacyRect.top + y]

\* where text boxes start, where they end, where the pointer tool clicks
TextDownEvents == {ClientPoint(0, 0), ClientPoint(10, 10)}

TextMoveEvents == {ClientPoint(40, 40)}

TextClicks == {ClientPoint(15, 15), ClientPoint(400, 400)}

\* what is typed: a text, or blanks over whatever the textarea held
TypedValues == {" ", "a"}

\* a press on the page or on a button of the toolbar takes the focus from
\* the textarea first
PointerFree == FocusedEditor = 0

\* a click on a button of the toolbar is a click outside the controls
NoOutsideHandler == \A k \in DOMAIN textEditors : textEditors[k].outside # "on"

TextUser == UserEvent /\ UNCHANGED <<schedHist, run, commit>>

TextLoop == UNCHANGED histVars

OldTextSelectTool ==
    \E tool \in {"pointer", "text"} :
        /\ PointerFree
        /\ NoOutsideHandler
        /\ ~drawing[legacyPageIndex + 1]
        /\ LegacySelectTool(tool)
        /\ TextUser

OldTextPointerDown ==
    \E e \in TextDownEvents :
        /\ PointerFree
        /\ actionSeq < MaxTexts
        /\ ~drawing[legacyPageIndex + 1]
        /\ LegacyPointerDown(e)
        /\ TextUser

OldTextPointerMove ==
    \E e \in TextMoveEvents : LegacyPointerMove(e) /\ TextUser

OldTextPointerUp == LegacyPointerUp /\ TextUser

OldTextClickAt(e) ==
    /\ PointerFree
    /\ ~drawing[legacyPageIndex + 1]
    /\ LegacyClick(e)
    /\ TextUser

OldTextClick == \E e \in TextClicks : OldTextClickAt(e)

OldTextInput == \E v \in TypedValues : LegacyTextInput(v) /\ TextUser

OldTextCtrlEnter == LegacyTextCtrlEnter /\ TextUser

OldTextEscape == LegacyTextEscape /\ TextUser

OldTextBlur == \E to \in {"button", "none"} : LegacyTextBlur(to) /\ TextUser

OldTextFocus == LegacyTextFocus /\ TextUser

OldTextOkClick == LegacyOkClick /\ TextUser

OldTextDeleteClick == LegacyDeleteClick /\ TextUser

OldTextDeleteKey == LegacyDeleteKey /\ TextUser

OldTextBlurTimer == \E k \in DOMAIN textEditors : LegacyTextBlurTimer(k) /\ TextLoop

OldTextOutsideTimer == \E k \in DOMAIN textEditors : LegacyOutsideTimer(k) /\ TextLoop

LegacyTextNext ==
    \/ OldTextSelectTool
    \/ OldTextPointerDown
    \/ OldTextPointerMove
    \/ OldTextPointerUp
    \/ OldTextClick
    \/ OldTextInput
    \/ OldTextCtrlEnter
    \/ OldTextEscape
    \/ OldTextBlur
    \/ OldTextFocus
    \/ OldTextOkClick
    \/ OldTextDeleteClick
    \/ OldTextDeleteKey
    \/ OldTextBlurTimer
    \/ OldTextOutsideTimer

SpecLegacyText == InitLegacyText /\ [][LegacyTextNext]_vars

\* the entry of a new text that ended with Escape or holds no text
CancelledEntry(ed) ==
    ~ed.isExisting /\ (ed.closedBy = "escape" \/ Trim(ed.value) = "")

\* C19: a new text entry that ends with Escape, or that is committed empty
\* or with whitespace only, changes no page's annotations and history, also
\* when the blur timer of the removed controls fires afterwards; an empty
\* commit while an existing text is edited removes exactly that text.
C19_CancelledTextChangesNothing ==
    [][/\ (OldTextEscape /\ ~textEditors[FocusedEditor].isExisting)
            => editingPages' = editingPages
       /\ (OldTextCtrlEnter /\ CancelledEntry(textEditors[FocusedEditor]))
            => editingPages' = editingPages
       /\ \A k \in DOMAIN textEditors :
            (CancelledEntry(textEditors[k]) /\ LegacyTextBlurTimer(k) /\ TextLoop)
                => editingPages' = editingPages
       /\ \A k \in DOMAIN textEditors :
            LET ed == textEditors[k]
                idx == IndexOfAction(editingPages[ed.pg].actions, ed.action.id)
            IN  (/\ ed.isExisting
                 /\ ed.attached
                 /\ Trim(ed.value) = ""
                 /\ idx # 0
                 /\ \/ (ed.active = "textarea" /\ OldTextCtrlEnter)
                    \/ (ed.active = "button" /\ OldTextOkClick))
                => editingPages'[ed.pg].actions
                       = RemoveAt(editingPages[ed.pg].actions, idx)]_vars

\* the texts of the page shown whose box holds the point clicked
TextsAt(e) ==
    {i \in DOMAIN editingPages[legacyPageIndex + 1].actions :
        HitsText(editingPages[legacyPageIndex + 1].actions[i],
                 e.clientX - LegacyRect.left, e.clientY - LegacyRect.top)}

SetMax(S) == CHOOSE i \in S : \A j \in S : j <= i

\* C20: a click of the pointer tool inside the boxes of several texts
\* opens for editing the text inserted last; a click inside no box selects
\* nothing.
C20_ClickSelectsLastInserted ==
    [][\A e \in TextClicks :
          (legacyTool = "pointer" /\ OldTextClickAt(e)) =>
              IF TextsAt(e) = {}
              THEN /\ selectedTextAction' \in {0, selectedTextAction}
                   /\ \A k \in DOMAIN textEditors' :
                          textEditors'[k].attached =>
                              \E j \in DOMAIN textEditors :
                                  textEditors[j].attached
                                      /\ textEditors[j].action = textEditors'[k].action
              ELSE \E k \in DOMAIN textEditors' :
                       /\ textEditors'[k].attached
                       /\ textEditors'[k].isExisting
                       /\ textEditors'[k].action.id =
                              editingPages[legacyPageIndex + 1].actions[SetMax(TextsAt(e))].id]_vars

\* two texts overlap on the page shown
TwoTextsOverlap ==
    \E e \in TextClicks : Cardinality(TextsAt(e)) = 2

(***************************************************************************)
(* Save in the lazy-loading editor: a document is open, its pages are      *)
(* rendered but, in some runs, one whose rasterization failed; the user    *)
(* draws rectangles, clicks thumbnails, Save and Back while the steps of   *)
(* the export and of the render scheduler run in between.                  *)
(***************************************************************************)
InitExport ==
    /\ \E F \in {{}, {1}} :
         /\ editorPages = PagesWithFailed(F)
         /\ mainCanvas = IF 0 \in F THEN [width |-> 300, height |-> 150]
                         ELSE DisplaySize([width |-> 8, height |-> 8], RasterOf(0),
                                          ZOOM_ONE)
    /\ currentPageIndex = 0
    /\ loadedPdfDocument = TRUE
    /\ editorVisible = TRUE
    /\ zoomLevel = ZOOM_ONE
    /\ panX = 0
    /\ panY = 0
    /\ container = [width |-> 8, height |-> 8]
    /\ pageRenderQueue = <<>>
    /\ isProcessingQueue = FALSE
    /\ loops = <<>>
    /\ openPc = "idle"
    /\ openStale = FALSE
    /\ currentTool = "rectangle"
    /\ currentColor = "#ff0000"
    /\ tempAnnotation = NoShape
    /\ currentPath = <<>>
    /\ textInputActive = FALSE
    /\ annotMouseDown = FALSE
    /\ annotStartX = 0
    /\ annotStartY = 0
    /\ isPanning = FALSE
    /\ textarea = NoTextarea
    /\ originalPdfBytes = "bytes"
    /\ pdfLib = "none"
    /\ exports = <<>>
    /\ InitNoLegacy
    /\ lastAdds = <<>>
    /\ taskHist = [p \in Pages |-> NoHist]
    /\ arrival = <<>>
    /\ failed = {}
    /\ budget = MaxExportEvents
    /\ run = NoRun
    /\ commit = NoCommit

ExpSaveClick == Len(exports) < MaxExports /\ SaveClick /\ Quiet

ExpPdfLibLoaded == PdfLibLoaded /\ Background

ExpPdfLibFailed == PdfLibFailed /\ Background

ExpWaitTick == \E k \in DOMAIN exports : ExportWaitTick(k) /\ Background

ExpCreated == \E k \in DOMAIN exports : ExportCreated(k) /\ Background

ExpEmbedded == \E k \in DOMAIN exports : ExportEmbedded(k) /\ Background

ExpYieldWake == \E k \in DOMAIN exports : ExportYieldWake(k) /\ Background

ExpSaved == \E k \in DOMAIN exports : ExportSaved(k) /\ Background

ExpSendDone == \E k \in DOMAIN exports : ExportSendDone(k) /\ Background

ExpThrowsAt(k) == ExportThrows(k) /\ Background

ExpThrows == \E k \in DOMAIN exports : ExpThrowsAt(k)

ExpBackToMerger == BackToMerger /\ Quiet

ExportNext ==
    \/ ExpSaveClick
    \/ ExpPdfLibLoaded
    \/ ExpPdfLibFailed
    \/ ExpWaitTick
    \/ ExpCreated
    \/ ExpEmbedded
    \/ ExpYieldWake
    \/ ExpSaved
    \/ ExpSendDone
    \/ ExpThrows
    \/ ExpBackToMerger
    \/ DrawMouseDown
    \/ DrawMouseUp
    \/ DrawThumbnailClick
    \/ DrawLoopRenderDone
    \/ DrawLoopWake

SpecExport == InitExport /\ [][ExportNext]_vars

(***************************************************************************)
(* Done in the action-list editor: a document is open, the rectangle tool  *)
(* is selected; the user draws and clicks Done, the steps of the export    *)
(* run in between.                                                         *)
(***************************************************************************)
InitLegacyExport ==
    /\ InitClosed
    /\ editingPages = [i \in 1..LegacyPages |-> [actions |-> <<>>, redo |-> <<>>]]
    /\ legacyPageIndex = 0
    /\ legacyTool = "rect"
    /\ drawing = [i \in 1..LegacyPages |-> FALSE]
    /\ legacyPath = [i \in 1..LegacyPages |-> NoPath]
    /\ selectedTextAction = 0
    /\ textEditors = <<>>
    /\ actionSeq = 0
    /\ legacyExports = <<>>
    /\ lastAdds = <<>>
    /\ taskHist = [p \in Pages |-> NoHist]
    /\ arrival = <<>>
    /\ failed = {}
    /\ budget = MaxExportEvents
    /\ run = NoRun
    /\ commit = NoCommit

OldDoneClick == Len(legacyExports) < MaxExports /\ LegacyDoneClick /\ TextUser

OldExportCreated ==
    \E k \in DOMAIN legacyExports : LegacyExportCreated(k) /\ TextLoop

OldExportEmbedded ==
    \E k \in DOMAIN legacyExports : LegacyExportEmbedded(k) /\ TextLoop

OldExportSaved ==
    \E k \in DOMAIN legacyExports : LegacyExportSaved(k) /\ TextLoop

OldExportSendDone ==
    \E k \in DOMAIN legacyExports : LegacyExportSendDone(k) /\ TextLoop

OldExportThrows ==
    \E k \in DOMAIN legacyExports : LegacyExportThrows(k) /\ TextLoop

OldExportPointerDown ==
    \E e \in LegacyEvents :
        /\ ~drawing[legacyPageIndex + 1]
        /\ LegacyPointerDown(e)
        /\ TextUser

OldExportPointerMove == \E e \in LegacyEvents : LegacyPointerMove(e) /\ TextUser

OldExportPointerUp == LegacyPointerUp /\ TextUser

OldExportPointerLeave == LegacyPointerLeave /\ TextUser

OldExportNextPage == ~drawing[legacyPageIndex + 1] /\ LegacyNextPage /\ TextUser

LegacyExportNext ==
    \/ OldDoneClick
    \/ OldExportCreated
    \/ OldExportEmbedded
    \/ OldExportSaved
    \/ OldExportSendDone
    \/ OldExportThrows
    \/ OldExportPointerDown
    \/ OldExportPointerMove
    \/ OldExportPointerUp
    \/ OldExportPointerLeave
    \/ OldExportNextPage

SpecLegacyExport == InitLegacyExport /\ [][LegacyExportNext]_vars

\* C11: when no page holds an annotation at the moment Save (or Done) is
\* clicked, what is handed to the host is the original bytes of the
\* document, not a re-encoded document.
C11_PlainSaveHandsOriginal ==
    /\ \A k \in DOMAIN exports :
          (~exports[k].hadAnnotations /\ exports[k].sent # NotSent)
              => exports[k].sent = [kind |-> "original", bytes |-> "bytes"]
    /\ \A k \in DOMAIN legacyExports :
          (~legacyExports[k].hadAnnotations /\ legacyExports[k].sent # NotSent)
              => legacyExports[k].sent = [kind |-> "original", bytes |-> "bytes"]

\* C15: when the compositing, the encoding or the embedding of an export
\* throws, the export stops there: nothing is handed to the host, one error
\* message is written, the page store is as it was, and the activation
\* does nothing afterwards.
C15_FailedExportStops ==
    [][\A k \in DOMAIN exports :
          /\ ExpThrowsAt(k) =>
                /\ exports'[k].pc = "done"
                /\ exports'[k].sent = NotSent
                /\ exports'[k].errors = 1
                /\ editorPages' = editorPages
          /\ exports[k].failedAt # "none" => exports'[k] = exports[k]]_vars

\* an export has failed after it had embedded a page
C15_FailedAfterFirstPage ==
    \E k \in DOMAIN exports :
        /\ exports[k].failedAt = "embed"
        /\ exports[k].doc # <<>>
        /\ exports[k].pc = "done"

\* an export is past its wait loop and has not yet handed its bytes over
ExportActive ==
    \E k \in DOMAIN exports : exports[k].pc \in {"create", "embed", "yield", "save"}

\* the render scheduler has a task queued or in flight
SchedulerActive ==
    \/ isProcessingQueue
    \/ Len(pageRenderQueue) > 0
    \/ \E k \in DOMAIN loops : loops[k].st = "raster"

\* C16: the render scheduler and the export pipeline are never active at
\* the same time.
C16_ExportExcludesScheduler == ~(ExportActive /\ SchedulerActive)

\* the output pages of an export that has handed a re-encoded document over
OutputPages(ex) == ex.sent.pages

Encoded(ex) == ex.sent # NotSent /\ ex.sent.kind = "encoded"

\* C21: when at least one page has annotations, the exported document holds
\* exactly one output page per page of the document, in page order: no page
\* is left out, not even one whose rasterization failed, and a page that
\* was annotated keeps annotations in the output.
C21_OnePagePerPage ==
    \A k \in DOMAIN exports :
        (exports[k].hadAnnotations /\ Encoded(exports[k])) =>
            /\ Len(OutputPages(exports[k])) = Len(exports[k].atClick)
            /\ \A m \in DOMAIN OutputPages(exports[k]) :
                   OutputPages(exports[k])[m].page = m - 1
            /\ \A n \in DOMAIN exports[k].atClick :
                   Len(exports[k].atClick[n]) > 0 =>
                       \E m \in DOMAIN OutputPages(exports[k]) :
                           /\ OutputPages(exports[k])[m].page = n - 1
                           /\ Len(OutputPages(exports[k])[m].annotations) > 0

\* C30: an export is atomic with respect to the edits made while it runs:
\* every page written is composited from the annotation list the page had
\* when Save was clicked, and the choice between handing the original bytes
\* and re-encoding agrees with the annotations of that moment.
C30_ExportOfClickState ==
    \A k \in DOMAIN exports :
        exports[k].sent # NotSent =>
            /\ Encoded(exports[k]) <=> exports[k].hadAnnotations
            /\ Encoded(exports[k]) =>
                   \A m \in DOMAIN OutputPages(exports[k]) :
                       OutputPages(exports[k])[m].annotations =
                           exports[k].atClick[OutputPages(exports[k])[m].page + 1]

\* C22: during a gesture a pointer move changes no page's stored data (the
\* provisional shape is in tempAnnotation / currentPath only), and when the
\* pointer leaves the canvas the gesture is cancelled: the editor is idle
\* again, and annotations, undoStack and redoStack are as they were.  The
\* same for the action-list editor, with its drawing flag and action lists.
C22_MoveAndLeaveKeepStored ==
    [][/\ DrawMouseMove => StoredData' = StoredData
       /\ DrawMouseLeave =>
            /\ ~annotMouseDown'
            /\ tempAnnotation' = NoShape
            /\ currentPath' = <<>>
            /\ StoredData' = StoredData
       /\ OldExportPointerMove => editingPages' = editingPages
       /\ OldExportPointerLeave =>
            /\ ~drawing'[legacyPageIndex + 1]
            /\ editingPages' = editingPages]_vars

(***************************************************************************)
(* Gestures of the shape tools on a rendered document: the pointer is      *)
(* pressed, moved, released or taken off the canvas at points that give    *)
(* drags of no extent, of an extent in one axis only and in both, with     *)
(* undo and redo in between.                                               *)
(***************************************************************************)
GestureTools == {"pen", "rectangle", "highlight", "line"}

GesturePts ==
    {Pt(RInt(1), RInt(1)), Pt(RInt(3), RInt(2)), Pt(RInt(5), RInt(1)), Pt(RInt(5), RInt(6))}

InitGesture ==
    /\ InitEditing
    /\ lastAdds = <<>>
    /\ taskHist = [p \in Pages |-> NoHist]
    /\ arrival = <<>>
    /\ failed = {}
    /\ budget = MaxGestureEvents
    /\ run = NoRun
    /\ commit = NoCommit

GestSelectTool ==
    \E tool \in GestureTools : ~annotMouseDown /\ SelectTool(tool) /\ Quiet

GestMouseDown == \E d \in GesturePts : MouseDown(PointerOver(d, panX, panY)) /\ Quiet

GestMouseMove ==
    \E d \in GesturePts :
        /\ Len(currentPath) < MaxPoints
        /\ MouseMove(PointerOver(d, panX, panY))
        /\ Quiet

\* the release point of a gesture, as the handler computes it
ReleasePoint(d) == GetAnnotCoords(PointerOver(d, panX, panY), mainCanvas, panX, panY)

GestMouseUpAt(d) ==
    /\ MouseUp(PointerOver(d, panX, panY))
    /\ UserEvent
    /\ commit' = CommitOf(editorPages, editorPages', currentPageIndex,
                          Pt(annotStartX, annotStartY), ReleasePoint(d))
    /\ UNCHANGED <<schedHist, run>>

GestMouseUp == \E d \in GesturePts : GestMouseUpAt(d)

GestMouseLeave == MouseLeave /\ Quiet

GestUndo == ~annotMouseDown /\ Undo /\ Quiet

GestRedo == ~annotMouseDown /\ Redo /\ Quiet

GestureNext ==
    \/ GestSelectTool
    \/ GestMouseDown
    \/ GestMouseMove
    \/ GestMouseUp
    \/ GestMouseLeave
    \/ GestUndo
    \/ GestRedo

SpecGesture == InitGesture /\ [][GestureNext]_vars

\* the extent of the drag that ends at d, in pixels of the displayed canvas
DragWidth(d) == RAbs(RSub[ReleasePoint(d).x, annotStartX])

DragHeight(d) == RAbs(RSub[ReleasePoint(d).y, annotStartY])

\* the extent of the text box dragged on the page shown in the action-list editor
BoxWidth ==
    Max2(legacyPath[legacyPageIndex + 1].x1, legacyPath[legacyPageIndex + 1].x2)
        - Min2(legacyPath[legacyPageIndex + 1].x1, legacyPath[legacyPageIndex + 1].x2)

BoxHeight ==
    Max2(legacyPath[legacyPageIndex + 1].y1, legacyPath[legacyPageIndex + 1].y2)
        - Min2(legacyPath[legacyPageIndex + 1].y1, legacyPath[legacyPageIndex + 1].y2)

\* C23: a rectangle or highlight gesture released on a page is discarded
\* exactly when its drag is at most 2 px wide and at most 2 px high: a drag
\* of more than 2 px in at least one axis appends the shape.  A text box
\* dragged in the action-list editor is discarded when it is under 20 px
\* in an axis and opens a text entry otherwise.
C23_DiscardedWhenSmall ==
    [][/\ \A d \in GesturePts :
            (/\ GestMouseUpAt(d)
             /\ currentTool \in {"rectangle", "highlight"}
             /\ HasPage(editorPages, currentPageIndex))
                => (commit'.made <=>
                        ~(/\ RLeq(DragWidth(d), RInt(2))
                          /\ RLeq(DragHeight(d), RInt(2))))
       /\ (/\ OldTextPointerUp
           /\ legacyPath[legacyPageIndex + 1] # NoPath
           /\ legacyPath[legacyPageIndex + 1].type = "text-box-preview")
                => (textEditors' = textEditors <=> (BoxWidth < 20 \/ BoxHeight < 20))]_vars

\* C27: a gesture that ends without appending an annotation leaves the
\* undoStack and the redoStack of every page as they were: no snapshot is
\* pushed, and a redoStack that is not empty is not cleared.
C27_NoAppendKeepsStacks ==
    [][\A d \in GesturePts :
          (GestMouseUpAt(d) /\ ~commit'.made) =>
              \A i \in DOMAIN editorPages :
                  /\ editorPages'[i].undoStack = editorPages[i].undoStack
                  /\ editorPages'[i].redoStack = editorPages[i].redoStack]_vars

C25_ZoomStaysInRange ==
    [][/\ zoomLevel \in MIN_ZOOM..MAX_ZOOM
       /\ zoomLevel' \in MIN_ZOOM..MAX_ZOOM
       /\ ViewZoomIn =>
            zoomLevel' = IF zoomLevel + ZOOM_STEP > MAX_ZOOM THEN MAX_ZOOM
                         ELSE zoomLevel + ZOOM_STEP
       /\ ViewZoomOut =>
            zoomLevel' = IF zoomLevel - ZOOM_STEP < MIN_ZOOM THEN MIN_ZOOM
                         ELSE zoomLevel - ZOOM_STEP
       /\ ViewResetZoom => (zoomLevel' = ZOOM_ONE /\ panX' = 0 /\ panY' = 0)]_vars

\* the view has been zoomed in to the end of the range, with the page panned
C25_ZoomAtMaximum ==
    /\ zoomLevel = MAX_ZOOM
    /\ panX # 0
    /\ ENABLED ViewZoomIn

\* C26: when the editor is closed the whole view state is reset (zoomLevel
\* 1.0, panX = panY = 0, currentPageIndex = 0), the page store and the
\* render queue are empty and the text entry, if one was open, is removed;
\* every session that is opened starts from the reset view state.
C26_CloseResetsView ==
    [][/\ UserBackToMerger =>
            /\ zoomLevel' = ZOOM_ONE
            /\ panX' = 0
            /\ panY' = 0
            /\ currentPageIndex' = 0
            /\ editorPages' = <<>>
            /\ pageRenderQueue' = <<>>
            /\ ~textarea'.open
       /\ UserStartOpen =>
            /\ zoomLevel' = ZOOM_ONE
            /\ panX' = 0
            /\ panY' = 0
            /\ currentPageIndex' = 0]_vars

(***************************************************************************)
(* A text entry on a rendered document: the text tool is selected, the     *)
(* overlay is opened on the page shown, a text is typed; the user clicks   *)
(* thumbnails and zooms while the overlay is open, and the entry is ended  *)
(* by a key or by the timer of its blur handler.                           *)
(***************************************************************************)
EntrySelectTool == SelectTool("text") /\ Quiet

EntryNext ==
    \/ EntrySelectTool
    \/ DrawMouseDown
    \/ DrawTextInput
    \/ DrawTextEscape
    \/ DrawTextCtrlEnter
    \/ DrawTextBlur
    \/ DrawTextFocus
    \/ DrawTextBlurTimer
    \/ DrawTextOldBlurTimer
    \/ DrawThumbnailClick
    \/ DrawZoomIn

SpecTextEntry == InitGesture /\ [][EntryNext]_vars

\* the page the open overlay was opened on
EntryPage == textarea.openedOn + 1

\* C28: a text is appended to the page that was shown when its entry was
\* opened, and the snapshot goes on that page's undoStack, also when
\* another page is shown or the zoom has changed by the time the entry is
\* committed by a key or by the delayed blur handler; no other page changes.
C28_TextGoesToItsPage ==
    [][((DrawTextBlurTimer \/ DrawTextCtrlEnter) /\ commit'.made) =>
          /\ commit'.page = textarea.openedOn
          /\ editorPages'[EntryPage].annotations =
                 Append(editorPages[EntryPage].annotations, commit'.stored)
          /\ editorPages'[EntryPage].undoStack =
                 Append(editorPages[EntryPage].undoStack, editorPages[EntryPage].annotations)
          /\ \A i \in DOMAIN editorPages :
                 i # EntryPage => editorPages'[i] = editorPages[i]]_vars

\* C29: isProcessingQueue is a faithful guard: while an activation of the
\* drain loop exists (it awaits a render or its timer) isProcessingQueue is
\* true, there is at most one such activation, and when the queue is empty
\* and isProcessingQueue is false no render started by the queue is in
\* flight; also after the editor was closed or a document opened meanwhile.
C29_GuardIsFaithful ==
    /\ loops # <<>> => isProcessingQueue
    /\ Len(loops) <= 1
    /\ Quiescent => \A k \in DOMAIN loops : loops[k].st # "raster"

====
